---- MODULE Spec2Model ----
(***************************************************************************)
(* A model of python-arangodb: the cursor pagination generator             *)
(* (cursor.py / db.py), the entity type registry and the document / edge   *)
(* lifecycle (db.py), and the query assembler (query.py).                  *)
(***************************************************************************)
EXTENDS Integers, Sequences, FiniteSets, TLC

(***************************************************************************)
(* Bounds of the model.                                                    *)
(***************************************************************************)
MaxBatches == 3
MaxBatchLen == 2
MaxRuns == 2
MaxDeclarations == 3
MaxInstances == 2
MaxCreates == 2
MaxCriteria == 2
MaxSortCriteria == 1
MaxJoins == 1
MaxFields == 3
MaxVertices == 2

VARIABLES
    \* ---- cursor (cursor.py, db.py:390-456) ----
    script,     \* the batches the transport stub serves, in order
    served,     \* how many batches the stub has served so far
    pc,         \* position of the iter_result generator
    cursor,     \* the local variable `cursor`: the current batch
    pos,        \* index of the record last yielded from cursor.result
    yielded,    \* history: every record handed to the consumer, in order
    calls,      \* history: every transport call, in order
    this,       \* the Cursor object: its query, bind and kwargs
    run,        \* which call of iter_result() the generator stems from
    failAt,     \* the transport raises on its failAt-th call (0: never)
    found,      \* the arguments of the Cursor.find call that made the Cursor
    \* ---- entity type registry (db.py:56-176) ----
    document_base,  \* MetaDocumentBase.__document_base__
    documents,      \* MetaDocumentBase.__documents__, an OrderedDict
    edge_base,      \* MetaEdgeBase.__edge_base__
    edges,          \* MetaEdgeBase.__edges__, an OrderedDict
    classes,        \* the entity classes that exist, in declaration order
    declared,       \* the last class statement and what it raised
    resolved,       \* the last _polymorph call: its argument and its outcome
    \* ---- document and edge instances (db.py:179-380) ----
    instances,      \* the BaseDocument instances the application holds
    result,         \* the last operation on an instance and its outcome
    \* ---- one Query object (query.py:655-760) ----
    for_exprs,      \* Query.for_exprs, a list of For clauses
    filter_expr,    \* Query.filter_expr.exprs, the criteria of the Filter
    sort_expr,      \* Query.sort_expr.exprs, the criteria of the Sort
    limit_expr,     \* Query.limit_expr, a Limit or None
    action_expr,    \* Query.action_expr, an Action or None
    assembled,      \* what the last query() call returned or raised
    \* ---- the transport's result handling (api.py:16-52, exc.py) ----
    response,       \* the HTTP response the last wrapped call received
    outcome,        \* what the wrapped call returned or raised
    \* ---- one Graph class statement (graph.py) ----
    body,           \* the GraphVertex classes of the class body, by attribute name
    from_vertices,  \* __from_vertices__ of the GraphEdge class of the body
    to_vertices,    \* __to_vertices__ of the GraphEdge class of the body
    graph           \* the Graph class: __graph_edges__ and __graph_vertices__

cursorVars == <<script, served, pc, cursor, pos, yielded, calls, this, run, failAt, found>>

registryVars == <<document_base, documents, edge_base, edges, classes, declared>>

entityVars == <<instances, result>>

apiVars == <<response, outcome>>

graphVars == <<body, from_vertices, to_vertices, graph>>

queryVars == <<for_exprs, filter_expr, sort_expr, limit_expr, action_expr, assembled>>

vars == <<cursorVars, registryVars, resolved, entityVars, queryVars, apiVars, graphVars>>

(***************************************************************************)
(* Helpers.                                                                *)
(***************************************************************************)
SeqsUpTo(S, n) == UNION {[1..k -> S] : k \in 0..n}

RECURSIVE Flatten(_)
Flatten(ss) == IF ss = <<>> THEN <<>> ELSE Head(ss) \o Flatten(Tail(ss))

IsPrefix(s, t) == Len(s) <= Len(t) /\ SubSeq(t, 1, Len(s)) = s

(***************************************************************************)
(* Cursor: the transport stub.                                             *)
(***************************************************************************)
\* Python's None.
None == [kind |-> "None"]

Records == {"r1", "r2"}

\* The value of `cursor` before the create call returned.
NoCursor == [result |-> <<>>, hasMore |-> FALSE, id |-> 0]

\* The result list of a batch as the cursor endpoint returns it; a batch may
\* be empty.
BatchResults == SeqsUpTo(Records, MaxBatchLen)

\* The stub's scripts: the result lists of 1..MaxBatches batches.
Scripts == UNION {[1..k -> BatchResults] : k \in 1..MaxBatches}

\* The n-th response of the cursor endpoint: hasMore tells whether a batch
\* follows.  The stub hands out a different id with every batch, so that the id
\* a continue call carries tells which batch it was taken from.
ServerBatch(n) ==
    IF n <= Len(script)
    THEN [result |-> script[n], hasMore |-> n < Len(script),
          id |-> (run - 1) * (MaxBatches + 1) + n]
    ELSE NoCursor

(***************************************************************************)
(* Strings that are split on '/': a string is held as the sequence of its  *)
(* '/'-separated parts, <<"User", "42">> for "User/42" and <<"User">> for   *)
(* "User".                                                                 *)
(***************************************************************************)
\* `'/' in s`
HasSlash(parts) == Len(parts) > 1

(***************************************************************************)
(* Mappings (dict) as functions on a set of keys.                          *)
(***************************************************************************)
EmptyDict == [k \in {} |-> [kind |-> "str", parts |-> <<>>, ref |-> 0]]

\* A str value and a value that is a document instance (an index into the
\* instances, 0 for an instance that is held nowhere else).
Str(parts) == [kind |-> "str", parts |-> parts, ref |-> 0]
DocRef(i) == [kind |-> "doc", parts |-> <<>>, ref |-> i]

\* dict.update / dict(a, **b)
Update(a, b) == [k \in DOMAIN a \cup DOMAIN b |-> IF k \in DOMAIN b THEN b[k] ELSE a[k]]

(***************************************************************************)
(* collections.OrderedDict as a sequence of (key, value) entries.          *)
(***************************************************************************)
Contains(od, k) == \E i \in 1..Len(od) : od[i].key = k

GetItem(od, k) == od[CHOOSE i \in 1..Len(od) : od[i].key = k].value

SetItem(od, k, v) ==
    IF Contains(od, k)
    THEN [i \in 1..Len(od) |-> IF od[i].key = k THEN [key |-> k, value |-> v] ELSE od[i]]
    ELSE Append(od, [key |-> k, value |-> v])

(***************************************************************************)
(* The entity type registry: MetaDocumentBase and MetaEdgeBase.            *)
(***************************************************************************)
\* `None` where a class is expected.
NoClass == [id |-> 0, name |-> "", collection |-> "", meta |-> ""]

\* The class statements of the db module itself, in source order.
ModuleClasses ==
    << [name |-> "BaseDocument", meta |-> "MetaDocumentBase"],
       [name |-> "Edge", meta |-> "MetaEdgeBase"],
       [name |-> "Document", meta |-> "MetaDocumentBase"] >>

\* The class statements of an application.
ClassNames == {"User", "Order"}
CollectionNames == {"Document"}

\* The registry as one value.
Registry ==
    [document_base |-> document_base, documents |-> documents,
     edge_base |-> edge_base, edges |-> edges]

\* A slip that looks the name up in the edge registry.
DuplicateCollectionInEdges(reg, cls) == Contains(reg.edges, cls.collection)

\* `elif cls.__collection_name__ in mcs.__documents__:`
DuplicateCollection(reg, cls) == Contains(reg.documents, cls.collection)

\* MetaDocumentBase._register_class.  (mcs.__document_base__ is read through
\* MetaEdgeBase as well: BaseDocument is declared first, so the attribute is
\* never None when an edge class gets here.)
MetaDocumentBase_register_class(reg, cls) ==
    IF reg.document_base = NoClass
    THEN [reg |-> [reg EXCEPT !.document_base = cls], raised |-> "none"]
    ELSE IF DuplicateCollection(reg, cls)
    THEN [reg |-> reg, raised |-> "TypeError"]
    ELSE [reg |-> [reg EXCEPT !.documents = SetItem(@, cls.collection, cls)],
          raised |-> "none"]

\* MetaEdgeBase._register_class
MetaEdgeBase_register_class(reg, cls) ==
    IF reg.edge_base = NoClass
    THEN [reg |-> [reg EXCEPT !.edge_base = cls], raised |-> "none"]
    ELSE LET r == MetaDocumentBase_register_class(reg, cls)
         IN  IF r.raised # "none"
             THEN r
             ELSE [reg |-> [r.reg EXCEPT !.edges = SetItem(@, cls.collection, cls)],
                   raised |-> "none"]

\* `mcs._register_class(cls)`: the metaclass of the class decides.
RegisterClass(reg, cls) ==
    IF cls.meta = "MetaEdgeBase"
    THEN MetaEdgeBase_register_class(reg, cls)
    ELSE MetaDocumentBase_register_class(reg, cls)

\* The class object of the n-th class statement `class name(base)`, with
\* `__collection_name__ = collection` in its body unless collection = "".
NewClass(n, name, collection, meta) ==
    [id |-> n, name |-> name,
     collection |-> IF collection = "" THEN name ELSE collection,
     meta |-> meta]

\* MetaDocumentBase.__new__
MetaDocumentBase_new(name, collection, meta) ==
    LET cls == NewClass(Len(classes) + 1, name, collection, meta)
        r == RegisterClass(Registry, cls)
    IN  /\ document_base' = r.reg.document_base
        /\ documents' = r.reg.documents
        /\ edge_base' = r.reg.edge_base
        /\ edges' = r.reg.edges
        /\ classes' = IF r.raised = "none" THEN Append(classes, cls) ELSE classes
        /\ declared' = [cls |-> cls, raised |-> r.raised]

\* No _polymorph call was made yet.
NotResolved == [dct |-> EmptyDict, raised |-> "", cls |-> NoClass, data |-> EmptyDict]

\* Importing arangodb.db runs its three class statements.
import_db ==
    /\ Len(classes) < Len(ModuleClasses)
    /\ LET c == ModuleClasses[Len(classes) + 1]
       IN  MetaDocumentBase_new(c.name, "", c.meta)
    /\ UNCHANGED <<cursorVars, resolved, entityVars, queryVars, apiVars, graphVars>>
\* A class statement of the application: a subclass of Document or of Edge.
\* Types are declared before the first record is resolved.
declare ==
    /\ Len(classes) >= Len(ModuleClasses)
    /\ resolved = NotResolved
    /\ Len(classes) < Len(ModuleClasses) + MaxDeclarations
    /\ \E name \in ClassNames, collection \in {""} \cup CollectionNames,
          meta \in {"MetaDocumentBase", "MetaEdgeBase"} :
          MetaDocumentBase_new(name, collection, meta)
    /\ UNCHANGED <<cursorVars, resolved, entityVars, queryVars, apiVars, graphVars>>
(***************************************************************************)
(* MetaDocumentBase._polymorph                                             *)
(***************************************************************************)
\* A slip that builds the root type whatever the collection.
LookupTypeRoot(docs, collection) == docs[1].value

\* `cls.__documents__[collection]`
LookupType(docs, collection) == GetItem(docs, collection)

\* The outcome of _polymorph(dct): what it raised, and the instance it built
\* (its type and its fields) if it raised nothing.
Polymorph(docs, dct) ==
    LET failed(e) == [raised |-> e, cls |-> NoClass, data |-> EmptyDict]
    IN  IF "_id" \notin DOMAIN dct \/ ~HasSlash(dct["_id"].parts)
        THEN failed("TypeError")
        ELSE IF Len(dct["_id"].parts) # 2
        THEN failed("ValueError")    \* `collection, _ = ...split('/')`
        ELSE LET collection == dct["_id"].parts[1]
             IN  IF ~Contains(docs, collection)
                 THEN failed("TypeError")
                 ELSE [raised |-> "none",
                       cls |-> LookupType(docs, collection),
                       data |-> dct]

\* The records handed to _polymorph.
PolymorphIds ==
    {<<"User", "1">>, <<"Order", "1">>, <<"Document", "1">>, <<"Unknown", "1">>,
     <<"User">>, <<"User", "1", "2">>}

PolymorphRecords ==
    LET foo == ("foo" :> Str(<<"1">>))
    IN  {EmptyDict, foo}
        \cup {("_id" :> Str(i)) : i \in PolymorphIds}
        \cup {Update(foo, ("_id" :> Str(i))) : i \in PolymorphIds}

\* A slip that registers the root type for a collection it did not know.
polymorph_Registering ==
    /\ Len(classes) >= Len(ModuleClasses)
    /\ \E dct \in PolymorphRecords :
          LET r == Polymorph(documents, dct)
              unknown == r.raised = "TypeError" /\ "_id" \in DOMAIN dct
                            /\ Len(dct["_id"].parts) = 2
          IN  /\ resolved' = [dct |-> dct, raised |-> r.raised, cls |-> r.cls, data |-> r.data]
              /\ documents' = IF unknown
                               THEN SetItem(documents, dct["_id"].parts[1], document_base)
                               ELSE documents
    /\ UNCHANGED <<document_base, edge_base, edges, classes, declared>>
    /\ UNCHANGED <<cursorVars, entityVars, queryVars, apiVars, graphVars>>

polymorph ==
    /\ Len(classes) >= Len(ModuleClasses)
    /\ \E dct \in PolymorphRecords :
          LET r == Polymorph(documents, dct)
          IN  resolved' = [dct |-> dct, raised |-> r.raised, cls |-> r.cls, data |-> r.data]
    /\ UNCHANGED <<cursorVars, registryVars, entityVars, queryVars, apiVars, graphVars>>
\* The registry before any class statement ran.
RegistryEmpty ==
    /\ document_base = NoClass
    /\ documents = <<>>
    /\ edge_base = NoClass
    /\ edges = <<>>
    /\ classes = <<>>
    /\ declared = [cls |-> NoClass, raised |-> ""]

\* The cursor at rest.
\* No Cursor.find call was made.
NotFound == [doc |-> None, items |-> <<>>]

\* No wrapped call was made.
NoResponse == [content_type |-> <<"", "">>, json |-> <<>>]
NoOutcome == [raised |-> "", code |-> None, num |-> None, message |-> None, content |-> <<>>]
\* No Graph class statement has begun.
NoGraph == [created |-> FALSE, graph_edges |-> <<>>, graph_vertices |-> <<>>]
GraphIdle ==
    body = <<>> /\ from_vertices = <<>> /\ to_vertices = <<>> /\ graph = NoGraph

ApiIdle == response = NoResponse /\ outcome = NoOutcome /\ GraphIdle

CursorIdle ==
    /\ script = <<>>
    /\ served = 0
    /\ pc = "created"
    /\ cursor = NoCursor
    /\ pos = 0
    /\ yielded = <<>>
    /\ calls = <<>>
    /\ this = [query |-> "", bind |-> None, kwargs |-> <<>>]
    /\ run = 1
    /\ failAt = 0
    /\ found = NotFound

\* No instance exists and no operation was run.
NoResult == [op |-> "", inst |-> 0, raised |-> "", calls |-> <<>>]

EntityIdle == instances = <<>> /\ result = NoResult

\* No Query has been built.
NotAssembled ==
    [op |-> "", raised |-> "", terms |-> <<>>, text |-> "", params |-> <<>>, returned |-> ""]
QueryIdle ==
    /\ for_exprs = <<>> /\ filter_expr = <<>> /\ sort_expr = <<>>
    /\ limit_expr = None /\ action_expr = None
    /\ assembled = NotAssembled

\* The registry and the resolver at rest.
RegistryIdle == RegistryEmpty /\ resolved = NotResolved /\ EntityIdle

RegistryInit ==
    RegistryEmpty /\ resolved = NotResolved /\ CursorIdle /\ EntityIdle /\ QueryIdle /\ ApiIdle

RegistryNext == import_db \/ declare \/ polymorph

RegistrySpec == RegistryInit /\ [][RegistryNext]_vars

(***************************************************************************)
(* Cursor.iter_result, one action per resumption of the generator.         *)
(***************************************************************************)
\* `while cursor['result']:`
WhileCondition(batch) == batch.result # <<>>

\* A slip that inverts the test of hasMore.
StepOutInverted(batch) == batch.hasMore

\* `if not cursor['hasMore']: break`
StepOut(batch) == ~batch.hasMore

\* `self.__class__.api.pursue(cursor['id'])`: the id sent to the transport.
PursueId(batch) == batch.id

\* Top of the while loop with a freshly fetched batch: either the first record
\* of the batch is yielded or the loop (and with it the generator) ends.
WhileLoop(batch) ==
    /\ cursor' = batch
    /\ IF WhileCondition(batch)
       THEN /\ pos' = 1
            /\ yielded' = Append(yielded, batch.result[1])
            /\ pc' = "yield"
       ELSE /\ pos' = 0
            /\ pc' = "done"
            /\ UNCHANGED yielded

\* The transport raises on the call that is about to be made.
TransportFails == failAt = Len(calls) + 1

\* A slip that swallows the error and ends the iteration normally.
RaiseSuppressed ==
    /\ pc' = "done"
    /\ UNCHANGED <<served, cursor, pos, yielded>>

\* A call that raises ends the generator: nothing in iter_result catches it.
Raise ==
    /\ pc' = "failed"
    /\ UNCHANGED <<served, cursor, pos, yielded>>

\* A slip that forwards every keyword option.
remap_fields_All(dct, include, mapping) ==
    LET name(k) == IF k \in DOMAIN mapping THEN mapping[k] ELSE k
    IN  [n \in {name(k) : k \in DOMAIN dct} |->
            dct[CHOOSE k \in DOMAIN dct : name(k) = n]]

\* remap_fields(dct, *include, **mapping): the (key, value) pairs of dct
\* whose key is among include (all of them when include is empty), each key
\* renamed by mapping; given here as the dict that body.update builds of them.
remap_fields(dct, include, mapping) ==
    LET kept == {k \in DOMAIN dct : include = {} \/ k \in include}
        name(k) == IF k \in DOMAIN mapping THEN mapping[k] ELSE k
    IN  [n \in {name(k) : k \in kept} |-> dct[CHOOSE k \in kept : name(k) = n]]

\* A slip that sends no bind map.
Cursors_create_NoBind(query, bind, kwargs) ==
    [op |-> "create", id |-> 0, query |-> query, bindVars |-> EmptyDict,
     options |-> remap_fields(kwargs, {"batch", "ttl", "count"}, "batch" :> "batchSize")]

\* Cursors.create(query, bind, **kwargs): the request it posts. The body is
\* query, bindVars and the optional fields (options) that body.update adds.
Cursors_create(query, bind, kwargs) ==
    [op |-> "create", id |-> 0, query |-> query,
     bindVars |-> IF bind = None THEN EmptyDict ELSE bind,
     options |-> remap_fields(kwargs, {"batch", "ttl", "count"}, "batch" :> "batchSize")]

\* A slip that fetches the next batch one record early.
ForHasNextFetchAhead(n, batch) == n + 1 < Len(batch.result)

\* `for result in cursor['result']` has a further record to yield.
ForHasNext(n, batch) == n < Len(batch.result)

\* The first next(): the create-cursor call, then the loop.
iter_result_create ==
    /\ pc = "created"
    /\ calls' = Append(calls, Cursors_create(this.query, this.bind, this.kwargs))
    /\ IF TransportFails
       THEN Raise
       ELSE /\ served' = 1
            /\ WhileLoop(ServerBatch(1))
    /\ UNCHANGED <<script, this, run, failAt, found>>
    /\ UNCHANGED <<registryVars, resolved, entityVars, queryVars, apiVars, graphVars>>
\* A later next(): resume after the yield.
iter_result_next ==
    /\ pc = "yield"
    /\ IF ForHasNext(pos, cursor)
       THEN /\ pos' = pos + 1
            /\ yielded' = Append(yielded, cursor.result[pos + 1])
            /\ UNCHANGED <<pc, cursor, calls, served>>
       ELSE IF StepOut(cursor)
       THEN /\ pc' = "done"
            /\ UNCHANGED <<pos, yielded, cursor, calls, served>>
       ELSE /\ calls' = Append(calls, [op |-> "pursue", id |-> PursueId(cursor)])
            /\ IF TransportFails
               THEN Raise
               ELSE /\ served' = served + 1
                    /\ WhileLoop(ServerBatch(served + 1))
    /\ UNCHANGED <<script, this, run, failAt, found>>
    /\ UNCHANGED <<registryVars, resolved, entityVars, queryVars, apiVars, graphVars>>
\* cursor.iter_result() called again once the previous generator has ended or
\* was closed: a new generator, which runs nothing until it is pulled.
iter_result ==
    /\ pc \in {"done", "failed", "closed"}
    /\ run < MaxRuns
    /\ run' = run + 1
    /\ pc' = "created"
    /\ cursor' = NoCursor
    /\ pos' = 0
    /\ served' = 0
    /\ yielded' = <<>>
    /\ UNCHANGED <<script, calls, this, failAt, found>>
    /\ UNCHANGED <<registryVars, resolved, entityVars, queryVars, apiVars, graphVars>>
\* The consumer abandons a suspended generator (close() or collection).
close ==
    /\ pc \in {"created", "yield"}
    /\ pc' = "closed"
    /\ UNCHANGED <<script, served, cursor, pos, yielded, calls, this, run, failAt, found>>
    /\ UNCHANGED <<registryVars, resolved, entityVars, queryVars, apiVars, graphVars>>
\* Cursor(query, bind, **kwargs)
Cursor_init(query, bind, kwargs) == [query |-> query, bind |-> bind, kwargs |-> kwargs]

\* Cursor(query, bind): no keyword options
Cursor(query, bind) == Cursor_init(query, bind, <<>>)

\* The Cursor objects of the runs.
Cursors ==
    {Cursor("FOR u IN User RETURN u", None),
     Cursor("FOR u IN User FILTER u.a == @a RETURN u", "a" :> "1")}

CursorInit ==
    /\ RegistryIdle
    /\ QueryIdle
    /\ ApiIdle
    /\ script \in Scripts
    /\ served = 0
    /\ pc = "created"
    /\ cursor = NoCursor
    /\ pos = 0
    /\ yielded = <<>>
    /\ calls = <<>>
    /\ this = Cursor("FOR u IN User RETURN u", None)
    /\ run = 1
    /\ failAt = 0
    /\ found = NotFound

CursorNext == iter_result_create \/ iter_result_next

CursorSpec == CursorInit /\ [][CursorNext]_vars

\* The consumer keeps pulling: a for loop over the generator.
CursorFairSpec == CursorSpec /\ WF_vars(CursorNext)

Spec == CursorSpec

\* The batches of the runs: the first records of a fixed result list.
RunBatches == {SubSeq(<<"r1", "r2", "r1", "r2">>, 1, n) : n \in 0..MaxBatchLen}
RunScripts == UNION {[1..k -> RunBatches] : k \in 1..MaxBatches}

\* A Cursor iterated up to MaxRuns times against a transport that may raise.
CursorRunInit ==
    /\ RegistryIdle
    /\ QueryIdle
    /\ ApiIdle
    /\ script \in RunScripts
    /\ served = 0
    /\ pc = "created"
    /\ cursor = NoCursor
    /\ pos = 0
    /\ yielded = <<>>
    /\ calls = <<>>
    /\ this \in Cursors
    /\ run = 1
    /\ failAt \in 0..(MaxBatches + 1)
    /\ found = NotFound

CursorRunNext == iter_result_create \/ iter_result_next \/ iter_result \/ close

CursorRunSpec == CursorRunInit /\ [][CursorRunNext]_vars

\* The keyword options a Cursor is built with: the three the request knows,
\* the name the request uses for batch, and one it does not know.
OptionValues ==
    ("batch" :> "10") @@ ("ttl" :> "60") @@ ("count" :> "true")
        @@ ("batchSize" :> "20") @@ ("fullCount" :> "true")

\* Every choice of keyword options.
Kwargs == {[k \in names |-> OptionValues[k]] : names \in SUBSET DOMAIN OptionValues}

\* The Cursor objects with keyword options.
OptionCursors ==
    {Cursor_init(c.query, c.bind, kwargs) : c \in Cursors, kwargs \in Kwargs}

\* One run of a Cursor built with keyword options, over a single batch.
CreateInit ==
    /\ RegistryIdle
    /\ QueryIdle
    /\ ApiIdle
    /\ script \in [1..1 -> RunBatches]
    /\ served = 0
    /\ pc = "created"
    /\ cursor = NoCursor
    /\ pos = 0
    /\ yielded = <<>>
    /\ calls = <<>>
    /\ this \in OptionCursors
    /\ run = 1
    /\ failAt = 0
    /\ found = NotFound

CreateNext == iter_result_create \/ iter_result_next \/ close

CreateSpec == CreateInit /\ [][CreateNext]_vars

(***************************************************************************)
(* Documents and edges: BaseDocument, Edge (db.py:179-380).                *)
(***************************************************************************)
\* The class statements of the package (arangodb/__init__.py), run after
\* those of the db module.
PackageClasses ==
    << [name |-> "User", meta |-> "MetaDocumentBase"],
       [name |-> "foo", meta |-> "MetaDocumentBase"],
       [name |-> "offers", meta |-> "MetaEdgeBase"] >>

\* The registry and the classes after the class statements stmts.
RECURSIVE RegisterAll(_, _, _)
RegisterAll(reg, cs, stmts) ==
    IF stmts = <<>>
    THEN [reg |-> reg, classes |-> cs]
    ELSE LET cls == NewClass(Len(cs) + 1, Head(stmts).name, "", Head(stmts).meta)
         IN  RegisterAll(RegisterClass(reg, cls).reg, Append(cs, cls), Tail(stmts))

PackageRegistry ==
    RegisterAll([document_base |-> NoClass, documents |-> <<>>,
                 edge_base |-> NoClass, edges |-> <<>>],
                <<>>, ModuleClasses \o PackageClasses)

ClassNamed(name) == CHOOSE c \in {classes[i] : i \in 1..Len(classes)} : c.name = name

\* The instances are built from these classes.
DocumentClass == ClassNamed("foo")
EdgeClass == ClassNamed("offers")

\* Whether Edge.__setitem__ is the class's __setitem__.
IsEdge(cls) == cls.meta = "MetaEdgeBase"

\* What the transport returns: the key of a created record, and revisions.
Keys == {"1"}
Revs == {"r1", "r2"}

\* The fields of the instance a value stands for.
ValueData(value) ==
    IF value.kind = "doc" /\ value.ref \in 1..Len(instances)
    THEN instances[value.ref].data
    ELSE EmptyDict

\* dict.__setitem__
Dict_setitem(data, key, value) ==
    [raised |-> "none", data |-> Update(data, (key :> value))]

\* A slip that forgets `_to`.
EndpointKeysFromOnly == {"_from"}

\* `key in ('_from', '_to')`
EndpointKeys == {"_from", "_to"}

\* Edge.__setitem__; valueData are the fields of value when it is an instance.
Edge_setitem(data, key, value, valueData) ==
    IF key \in EndpointKeys /\ value.kind = "doc"
    THEN IF "_id" \notin DOMAIN valueData
         THEN [raised |-> "TypeError", data |-> data]
         ELSE Dict_setitem(data, key, valueData["_id"])
    ELSE Dict_setitem(data, key, value)

\* `self[key] = value` on an instance of cls.
SetItemOf(cls, data, key, value, valueData) ==
    IF IsEdge(cls)
    THEN Edge_setitem(data, key, value, valueData)
    ELSE Dict_setitem(data, key, value)

\* Edge.__init__(*args, **kwargs): two leading endpoints or none; kw is what
\* reaches dict.__init__ (a mapping argument and the keyword arguments).
Edge_init(args, kw) ==
    IF Len(args) < 2
    THEN [raised |-> "none", data |-> kw]
    ELSE LET r1 == Edge_setitem(EmptyDict, "_from", args[1], ValueData(args[1]))
             r2 == Edge_setitem(r1.data, "_to", args[2], ValueData(args[2]))
         IN  IF r1.raised # "none" THEN [raised |-> r1.raised, data |-> EmptyDict]
             ELSE IF r2.raised # "none" THEN [raised |-> r2.raised, data |-> EmptyDict]
             ELSE [raised |-> "none", data |-> Update(r2.data, kw)]

\* An instance: its class and its fields; creates counts the create calls made
\* for it.
NewInstance(cls, data) == [cls |-> cls, data |-> data, creates |-> 0]

\* The values an application assigns: an id string or a document it holds.
AppIds == {Str(<<"foo", "1">>)}
AppValues ==
    AppIds \cup {DocRef(i) : i \in {j \in 1..Len(instances) : ~IsEdge(instances[j].cls)}}

\* What an operation leaves behind: what it raised and its transport calls.
Outcome(op, inst, raised, cs) ==
    [op |-> op, inst |-> inst, raised |-> raised, calls |-> cs]

\* Document(**kw)
construct_document(kw) ==
    /\ Len(instances) < MaxInstances
    /\ instances' = Append(instances, NewInstance(DocumentClass, kw))
    /\ result' = Outcome("Document", Len(instances) + 1, "none", <<>>)
    /\ UNCHANGED <<cursorVars, registryVars, resolved, queryVars, apiVars, graphVars>>
\* Edge(), Edge(_from, _to), Edge(**kw), Edge(_from, _to, **kw)
construct_edge(args, kw) ==
    /\ Len(instances) < MaxInstances
    /\ LET r == Edge_init(args, kw)
       IN  /\ instances' = IF r.raised = "none"
                           THEN Append(instances, NewInstance(EdgeClass, r.data))
                           ELSE instances
           /\ result' = Outcome("Edge", IF r.raised = "none" THEN Len(instances) + 1 ELSE 0,
                                r.raised, <<>>)
    /\ UNCHANGED <<cursorVars, registryVars, resolved, queryVars, apiVars, graphVars>>
\* instances[i][key] = value, on an edge
setitem(i, key, value) ==
    /\ IsEdge(instances[i].cls)
    /\ LET inst == instances[i]
           r == SetItemOf(inst.cls, inst.data, key, value, ValueData(value))
       IN  /\ instances' = [instances EXCEPT ![i].data = r.data]
           /\ result' = Outcome("setitem", i, r.raised, <<>>)
    /\ UNCHANGED <<cursorVars, registryVars, resolved, queryVars, apiVars, graphVars>>
\* `if '_id' in self:`
HasId(data) == "_id" \in DOMAIN data

\* A slip that takes `and` for `or`.
MissingBothEndpoints(doc) == "_from" \notin DOMAIN doc /\ "_to" \notin DOMAIN doc

\* `if '_from' not in doc or '_to' not in doc:`
MissingEndpoint(doc) == "_from" \notin DOMAIN doc \/ "_to" \notin DOMAIN doc

\* A slip that leaves `_id` out of the fields copied back.
SavedKeysWithoutId == {"_key", "_rev"}

\* `for k in ('_id', '_key', '_rev'):`
SavedKeys == {"_id", "_key", "_rev"}

\* BaseDocument._create / Edge._create: the transport call, if one is made.
Create(cls, doc) ==
    IF IsEdge(cls) /\ MissingEndpoint(doc)
    THEN [raised |-> "TypeError", calls |-> <<>>]
    ELSE [raised |-> "none",
          calls |-> <<[op |-> "create", handle |-> <<cls.collection>>]>>]

\* The transport's answer to a create, replace or get call.
Response(collection, key, rev) ==
    [k \in {"_id", "_key", "_rev"} |->
        IF k = "_id" THEN Str(<<collection, key>>)
        ELSE IF k = "_key" THEN Str(<<key>>)
        ELSE Str(<<rev>>)]

\* The answer to the call save makes for an instance: a created record gets
\* the key the server picks, a replaced one keeps its handle.
SaveResponse(inst, key, rev) ==
    IF HasId(inst.data)
    THEN Response(inst.data["_id"].parts[1], inst.data["_id"].parts[2], rev)
    ELSE Response(inst.cls.collection, key, rev)

\* BaseDocument.save on instances[i]; the server answers with key and rev.
save(i, key, rev) ==
    /\ LET inst == instances[i]
           serialized == inst.data
           sent == IF HasId(inst.data)
                   THEN [raised |-> "none",
                         calls |-> <<[op |-> "replace", handle |-> inst.data["_id"].parts]>>]
                   ELSE Create(inst.cls, serialized)
           doc == SaveResponse(inst, key, rev)
       IN  /\ inst.creates < MaxCreates
           /\ instances' =
                 IF sent.raised = "none"
                 THEN [instances EXCEPT
                         ![i].data = Update(@, [k \in SavedKeys |-> doc[k]]),
                         ![i].creates = IF HasId(inst.data) THEN @ ELSE @ + 1]
                 ELSE instances
           /\ result' = Outcome("save", i, sent.raised, sent.calls)
    /\ UNCHANGED <<cursorVars, registryVars, resolved, queryVars, apiVars, graphVars>>
\* The record the document endpoint returns for a handle: records of an edge
\* collection carry `_from` and `_to`.
ServerEnds == [k \in {"_from", "_to"} |-> Str(<<"foo", IF k = "_from" THEN "1" ELSE "2">>)]

ServerGet(name, key, rev) ==
    IF Contains(edges, name)
    THEN Update(Response(name, key, rev), ServerEnds)
    ELSE Response(name, key, rev)

\* BaseDocument.load (with its polymorph decorator) called on cls.
BaseDocument_load(cls, key, rev) ==
    IF HasSlash(key) /\ Len(key) # 2
    THEN [raised |-> "ValueError", cls |-> NoClass, data |-> EmptyDict, calls |-> <<>>]
    ELSE LET name == IF HasSlash(key) THEN key[1] ELSE cls.collection
             k == IF HasSlash(key) THEN key[2] ELSE key[1]
             doc == ServerGet(name, k, rev)
             r == Polymorph(documents, doc)
         IN  [raised |-> r.raised, cls |-> r.cls, data |-> r.data,
              calls |-> <<[op |-> "get", handle |-> <<name, k>>]>>]

\* Edge.load called on cls.
Edge_load(cls, key, rev) ==
    LET edge == BaseDocument_load(cls, key, rev)
        failed(e, cs) == [raised |-> e, cls |-> NoClass, data |-> EmptyDict, calls |-> cs]
    IN  IF edge.raised # "none" THEN edge
        ELSE IF "_from" \notin DOMAIN edge.data THEN failed("KeyError", edge.calls)
        ELSE
        LET from == BaseDocument_load(ClassNamed("Document"), edge.data["_from"].parts, rev)
            set1 == SetItemOf(edge.cls, edge.data, "_from", DocRef(0), from.data)
        IN  IF from.raised # "none" THEN failed(from.raised, edge.calls \o from.calls)
            ELSE IF set1.raised # "none" THEN failed(set1.raised, edge.calls \o from.calls)
            ELSE
            LET to == BaseDocument_load(ClassNamed("Document"), set1.data["_to"].parts, rev)
                set2 == SetItemOf(edge.cls, set1.data, "_to", DocRef(0), to.data)
                cs == edge.calls \o from.calls \o to.calls
            IN  IF to.raised # "none" THEN failed(to.raised, cs)
                ELSE IF set2.raised # "none" THEN failed(set2.raised, cs)
                ELSE [raised |-> "none", cls |-> edge.cls, data |-> set2.data, calls |-> cs]

LoadKeys == {<<"offers", "1">>, <<"1">>, <<"foo", "1">>}

\* offers.load(key)
load_edge(key, rev) ==
    /\ Len(instances) < MaxInstances
    /\ LET r == Edge_load(EdgeClass, key, rev)
       IN  /\ instances' = IF r.raised = "none"
                           THEN Append(instances, NewInstance(r.cls, r.data))
                           ELSE instances
           /\ result' = Outcome("Edge.load", IF r.raised = "none" THEN Len(instances) + 1 ELSE 0,
                                r.raised, r.calls)
    /\ UNCHANGED <<cursorVars, registryVars, resolved, queryVars, apiVars, graphVars>>
\* The application has imported the package; it holds no instance yet.
Imported ==
    /\ document_base = PackageRegistry.reg.document_base
    /\ documents = PackageRegistry.reg.documents
    /\ edge_base = PackageRegistry.reg.edge_base
    /\ edges = PackageRegistry.reg.edges
    /\ classes = PackageRegistry.classes
    /\ declared = [cls |-> classes[Len(classes)], raised |-> "none"]
    /\ resolved = NotResolved
    /\ CursorIdle
    /\ QueryIdle
    /\ ApiIdle

EntityInit == Imported /\ EntityIdle

\* What the application passes to the constructors.
DocumentKw == {EmptyDict} \cup {("_id" :> v) : v \in AppIds}
EdgeArgs == {<<>>} \cup (AppValues \X AppValues)
EdgeKw == {EmptyDict} \cup {("_from" :> v) : v \in AppIds}

EntityNext ==
    \/ \E kw \in DocumentKw : construct_document(kw)
    \/ \E args \in EdgeArgs, kw \in EdgeKw : construct_edge(args, kw)
    \/ \E i \in 1..Len(instances), key \in EndpointKeys, value \in AppValues :
          setitem(i, key, value)
    \/ \E i \in 1..Len(instances), key \in Keys, rev \in Revs : save(i, key, rev)
    \/ \E key \in LoadKeys, rev \in Revs : load_edge(key, rev)

EntitySpec == EntityInit /\ [][EntityNext]_vars

(***************************************************************************)
(* Request-time operations of several callers on the documents they hold,  *)
(* against a transport that may raise: resolve, load, save and delete.     *)
(* The callers' operations interleave as the steps of one behaviour.       *)
(***************************************************************************)
\* A slip that makes a second transport call after the first one raised.
save_transport_error_Retry(i) ==
    /\ LET inst == instances[i]
           sent == IF HasId(inst.data)
                   THEN [raised |-> "none",
                         calls |-> <<[op |-> "replace", handle |-> inst.data["_id"].parts]>>]
                   ELSE Create(inst.cls, inst.data)
       IN  /\ sent.raised = "none"
           /\ result' = Outcome("save", i, "ApiError", sent.calls \o sent.calls)
    /\ UNCHANGED instances
    /\ UNCHANGED <<cursorVars, registryVars, resolved, queryVars, apiVars, graphVars>>

\* BaseDocument.save on instances[i] when the transport call raises: the
\* loop that copies `_id`, `_key` and `_rev` back is not reached.
save_transport_error(i) ==
    /\ LET inst == instances[i]
           sent == IF HasId(inst.data)
                   THEN [raised |-> "none",
                         calls |-> <<[op |-> "replace", handle |-> inst.data["_id"].parts]>>]
                   ELSE Create(inst.cls, inst.data)
       IN  /\ sent.raised = "none"
           /\ result' = Outcome("save", i, "ApiError", sent.calls)
    /\ UNCHANGED instances
    /\ UNCHANGED <<cursorVars, registryVars, resolved, queryVars, apiVars, graphVars>>

\* A slip that forgets the identity of the deleted record.
delete_Forgetting(i) ==
    /\ HasId(instances[i].data)
    /\ result' = Outcome("delete", i, "none",
                      <<[op |-> "delete", handle |-> instances[i].data["_id"].parts]>>)
    /\ instances' = [instances EXCEPT
                        ![i].data = [k \in DOMAIN @ \ SavedKeys |-> @[k]]]
    /\ UNCHANGED <<cursorVars, registryVars, resolved, queryVars, apiVars, graphVars>>

\* BaseDocument.delete on instances[i]: self['_id'] raises KeyError when the
\* instance has no `_id`.
delete(i) ==
    /\ result' =
          IF HasId(instances[i].data)
          THEN Outcome("delete", i, "none",
                   <<[op |-> "delete", handle |-> instances[i].data["_id"].parts]>>)
          ELSE Outcome("delete", i, "KeyError", <<>>)
    /\ UNCHANGED instances
    /\ UNCHANGED <<cursorVars, registryVars, resolved, queryVars, apiVars, graphVars>>

\* Documents are made, saved and deleted against a transport that may raise.
LifecycleNext ==
    \/ \E kw \in DocumentKw : construct_document(kw)
    \/ \E i \in 1..Len(instances), key \in Keys, rev \in Revs : save(i, key, rev)
    \/ \E i \in 1..Len(instances) : save_transport_error(i)
    \/ \E i \in 1..Len(instances) : delete(i)

LifecycleSpec == EntityInit /\ [][LifecycleNext]_vars

\* Request serving starts after the declarations, with a document at hand.
RequestInit ==
    /\ Imported
    /\ instances \in {<<NewInstance(DocumentClass, kw)>> : kw \in DocumentKw}
    /\ result = NoResult

RequestNext ==
    \/ polymorph
    \/ \E i \in 1..Len(instances), key \in Keys, rev \in Revs : save(i, key, rev)
    \/ \E i \in 1..Len(instances) : delete(i)
    \/ \E key \in LoadKeys, rev \in Revs : load_edge(key, rev)

RequestSpec == RequestInit /\ [][RequestNext]_vars

(***************************************************************************)
(* The ways an application fills an Edge: the constructor with positional  *)
(* endpoints, with a mapping argument or keyword arguments, item           *)
(* assignment and update().                                                *)
(***************************************************************************)
\* instances[i].update(kw): Edge inherits dict.update, which stores the items
\* itself and never calls Edge.__setitem__.
update(i, kw) ==
    /\ IsEdge(instances[i].cls)
    /\ instances' = [instances EXCEPT ![i].data = Update(instances[i].data, kw)]
    /\ result' = Outcome("update", i, "none", <<>>)
    /\ UNCHANGED <<cursorVars, registryVars, resolved, queryVars, apiVars, graphVars>>

\* A mapping argument or keyword arguments naming an endpoint, whose value is
\* an id string or a document the application holds.
EndpointKw == {EmptyDict} \cup {(key :> v) : key \in EndpointKeys, v \in AppValues}

FillNext ==
    \/ \E kw \in DocumentKw : construct_document(kw)
    \/ \E args \in EdgeArgs, kw \in EndpointKw : construct_edge(args, kw)
    \/ \E i \in 1..Len(instances), key \in EndpointKeys, value \in AppValues :
          setitem(i, key, value)
    \/ \E i \in 1..Len(instances), kw \in EndpointKw : update(i, kw)

FillSpec == EntityInit /\ [][FillNext]_vars

(***************************************************************************)
(* The query assembler: Expression, Chain, Query (query.py).               *)
(* An expression that renders a term of its own is a leaf: a record with   *)
(* its type as kind, its identity id, and its text and value.  Instances   *)
(* made at module level have id 0 and differ in text; instances the        *)
(* application constructs have ids >= 1; an instance made while iterating  *)
(* has a negative id, its position in the traversal.  A composite is a     *)
(* record of its parts.  Literals and names are strings.                   *)
(***************************************************************************)
Leaf(kind, id, text, value) == [kind |-> kind, id |-> id, text |-> text, value |-> value]

LeafKinds == {"Term", "KeyWord", "Value", "Alias", "AliasAttr", "Collection"}

\* Term(" ") and the other module-level terms and keywords
Term(term) == Leaf("Term", 0, term, "")
KeyWord(term) == Leaf("KeyWord", 0, term, "")
SPACE == Term(" ")
FOR == KeyWord("FOR")
RETURN == KeyWord("RETURN")
FILTER == KeyWord("FILTER")
SORT == KeyWord("SORT")
LIMIT == KeyWord("LIMIT")
DESC == KeyWord("DESC")
KeyWord_IN == KeyWord("IN")
AND == KeyWord("AND")
Operator_EQ == Term("==")

\* A Term made while a Limit is iterated.
FreshTerm(term) == Leaf("Term", -1, term, "")

\* Value(value), Alias(name), alias.name, Collection(name)
Value(id, value) == Leaf("Value", id, "", value)
Alias(id, name) == Leaf("Alias", id, name, "")
AliasAttr(parent, name) == Leaf("AliasAttr", parent.id, name, parent.text)
Collection(id, collection) == Leaf("Collection", id, "", collection)

\* A slip that takes the name of the class for its collection name.
ClassName(cls) == cls.name

\* `getattr(collection, "__collection_name__", ...)` of an entity type
CollectionName(cls) == cls.collection

\* Collection(SomeType)
CollectionOf(id, cls) == Collection(id, CollectionName(cls))

\* A value that is not an Expression.
Raw(value) == [kind |-> "raw", id |-> 0, text |-> "", value |-> value]

\* Value.fix
Value_fix(value) == IF value.kind = "raw" THEN Value(-1, value.value) ELSE value

\* Operator(a, b, op)
Operator(a, b, op) == [kind |-> "Operator", a |-> Value_fix(a), op |-> op, b |-> Value_fix(b)]

\* Desc(alias), Return(alias), For(alias, from_list), Limit(count), Limit(offset, count)
Desc(alias) == [kind |-> "Desc", alias_expr |-> alias]
Return(alias) == [kind |-> "Return", alias |-> alias]
For(alias, from_list) == [kind |-> "For", alias_expr |-> alias, list_expr |-> from_list]
Limit(offset, count) == [kind |-> "Limit", offset |-> offset, count |-> count]

\* Limit.offset when only a count was given.
NoOffset == ""

\* __iter__ of an expression: the leaves it yields, in order.
RECURSIVE Iter(_), Chain_iter(_, _)

\* Chain.__iter__: every expression, fixed, with the leaves of sep between.
Chain_iter(exprs, sep) ==
    IF Len(exprs) = 0 THEN <<>>
    ELSE Iter(Value_fix(Head(exprs)))
            \o (IF Len(exprs) > 1 THEN sep ELSE <<>>)
            \o Chain_iter(Tail(exprs), sep)

\* Filter.__iter__, Sort.__iter__ over the criteria exprs
Filter_iter(exprs) == <<FILTER, SPACE>> \o Chain_iter(exprs, <<SPACE, AND, SPACE>>)
Sort_iter(exprs) == <<SORT, SPACE>> \o Chain_iter(exprs, <<Term(", ")>>)

Iter(e) ==
    CASE e.kind \in LeafKinds -> <<e>>
      [] e.kind = "Operator" -> Chain_iter(<<e.a, e.op, e.b>>, <<SPACE>>)
      [] e.kind = "Desc" -> Iter(e.alias_expr) \o <<SPACE, DESC>>
      [] e.kind = "Return" -> <<RETURN, SPACE>> \o Iter(e.alias)
      [] e.kind = "For" ->
            <<FOR, SPACE>> \o Iter(e.alias_expr) \o <<SPACE, KeyWord_IN, SPACE>>
                \o Iter(e.list_expr)
      [] e.kind = "Limit" ->
            <<LIMIT, SPACE>> \o
            (IF e.offset = NoOffset
             THEN <<FreshTerm(e.count)>>
             ELSE Chain_iter(<<FreshTerm(e.offset), FreshTerm(e.count)>>, <<Term(", ")>>))

RECURSIVE IterAll(_)
IterAll(exprs) == IF Len(exprs) = 0 THEN <<>> ELSE Iter(Head(exprs)) \o IterAll(Tail(exprs))

\* A slip that yields the limit before the sort.
Query_iter_LimitBeforeSort(q) ==
    IterAll(q.for_exprs)
        \o (IF Len(q.filter_expr) # 0 THEN <<SPACE>> \o Filter_iter(q.filter_expr) ELSE <<>>)
        \o (IF q.limit_expr # None THEN <<SPACE>> \o Iter(q.limit_expr) ELSE <<>>)
        \o (IF Len(q.sort_expr) # 0 THEN <<SPACE>> \o Sort_iter(q.sort_expr) ELSE <<>>)
        \o <<SPACE>> \o Iter(q.action_expr)

\* Query.__iter__, up to the point where the action is iterated.
Query_iter(q) ==
    IterAll(q.for_exprs)
        \o (IF Len(q.filter_expr) # 0 THEN <<SPACE>> \o Filter_iter(q.filter_expr) ELSE <<>>)
        \o (IF Len(q.sort_expr) # 0 THEN <<SPACE>> \o Sort_iter(q.sort_expr) ELSE <<>>)
        \o (IF q.limit_expr # None THEN <<SPACE>> \o Iter(q.limit_expr) ELSE <<>>)
        \o <<SPACE>> \o Iter(q.action_expr)

\* Every instance made during one iteration is a new object.
Traversal(leaves) ==
    [i \in 1..Len(leaves) |->
        IF leaves[i].id < 0 THEN [leaves[i] EXCEPT !.id = -i] ELSE leaves[i]]

\* Param.__call__
Param(name, index, declared_) ==
    (IF declared_ THEN "@" ELSE "") \o name \o "_" \o ToString(index)

\* The quote character of AliasAttr._get_term, written as an apostrophe.
BackQuote == "'"

\* _get_term and _get_params of a leaf
get_term(e, index) ==
    CASE e.kind \in {"Term", "KeyWord", "Alias"} -> e.text
      [] e.kind = "AliasAttr" -> e.value \o "." \o BackQuote \o e.text \o BackQuote
      [] e.kind = "Value" -> Param("value", index, TRUE)
      [] e.kind = "Collection" -> Param("@c", index, TRUE)

get_params(e, index) ==
    CASE e.kind = "Value" -> Param("value", index, FALSE) :> e.value
      [] e.kind = "Collection" -> Param("@c", index, FALSE) :> e.value
      [] OTHER -> EmptyDict

\* A slip that takes two nodes with equal content for one node.
SameContent(a, b) == a.kind = b.kind /\ a.text = b.text /\ a.value = b.value

\* The keys of the per-type OrderedDict are told apart by identity.
SameNode(a, b) == a = b

\* register_expr: the index of expr among types, and types afterwards.
register_expr(types, expr) ==
    IF \E n \in 1..Len(types) : SameNode(types[n], expr)
    THEN [index |-> (CHOOSE n \in 1..Len(types) : SameNode(types[n], expr)) - 1,
          types |-> types]
    ELSE [index |-> Len(types), types |-> Append(types, expr)]

\* A slip that keeps one registry for the nodes of all types.
RECURSIVE assemble_OneRegistry(_, _)
assemble_OneRegistry(leaves, expressions) ==
    IF Len(leaves) = 0 THEN <<>>
    ELSE LET expr == Head(leaves)
             r == register_expr(expressions["Value"], expr)
         IN  <<[term |-> get_term(expr, r.index), params |-> get_params(expr, r.index)]>>
                \o assemble_OneRegistry(Tail(leaves), [expressions EXCEPT !["Value"] = r.types])

\* Expression.assemble over a traversal: the (term, params) pairs it yields.
RECURSIVE assemble(_, _)
assemble(leaves, expressions) ==
    IF Len(leaves) = 0 THEN <<>>
    ELSE LET expr == Head(leaves)
             r == register_expr(expressions[expr.kind], expr)
         IN  <<[term |-> get_term(expr, r.index), params |-> get_params(expr, r.index)]>>
                \o assemble(Tail(leaves), [expressions EXCEPT ![expr.kind] = r.types])

RECURSIVE Join(_)
Join(terms) == IF Len(terms) = 0 THEN "" ELSE Head(terms) \o Join(Tail(terms))

RECURSIVE JoinedParams(_)
JoinedParams(pairs) ==
    IF Len(pairs) = 0 THEN EmptyDict
    ELSE Update(JoinedParams(SubSeq(pairs, 1, Len(pairs) - 1)), pairs[Len(pairs)].params)

\* Expression.query over the leaves an expression yields.
Expression_query(op, leaves) ==
    LET pairs == assemble(Traversal(leaves), [k \in LeafKinds |-> <<>>])
        terms == [i \in 1..Len(pairs) |-> pairs[i].term]
    IN  [op |-> op, raised |-> "none", terms |-> terms, text |-> Join(terms),
         params |-> JoinedParams(pairs), returned |-> "tuple"]

\* The Query object as one value.
Self ==
    [for_exprs |-> for_exprs, filter_expr |-> filter_expr, sort_expr |-> sort_expr,
     limit_expr |-> limit_expr, action_expr |-> action_expr]

\* What the application works with.
Literals == {"1", "2"}
Foo == Alias(1, "foo")
Bar == Alias(2, "bar")

\* An entity type whose collection name deviates from its name:
\* class User(Document): __collection_name__ = "users"
UserType == NewClass(Len(ModuleClasses) + 1, "User", "users", "MetaDocumentBase")

\* The largest id of a Value the criteria hold, and the criteria that are
\* Operator instances.
RECURSIVE MaxValueId(_)
MaxValueId(exprs) ==
    IF Len(exprs) = 0 THEN 0
    ELSE LET m == MaxValueId(Tail(exprs))
             n == IF Head(exprs).kind = "Operator" THEN Head(exprs).b.id ELSE 0
         IN  IF n > m THEN n ELSE m

\* `return self`: the call returns the Query it was called on; what was
\* assembled before is out of date.
ReturnSelf == [NotAssembled EXCEPT !.returned = "self"]

\* A slip that puts the new criteria in front of the existing ones.
filter_Prepend(filters) ==
    /\ Len(for_exprs) > 0
    /\ Len(filter_expr) + Len(filters) <= MaxCriteria
    /\ filter_expr' = filters \o filter_expr
    /\ assembled' = ReturnSelf
    /\ UNCHANGED <<for_exprs, sort_expr, limit_expr, action_expr>>
    /\ UNCHANGED <<cursorVars, registryVars, resolved, entityVars, apiVars, graphVars>>
\* Query.filter(*filters)
filter(filters) ==
    /\ Len(for_exprs) > 0
    /\ Len(filter_expr) + Len(filters) <= MaxCriteria
    /\ filter_expr' = filter_expr \o filters
    /\ assembled' = ReturnSelf
    /\ UNCHANGED <<for_exprs, sort_expr, limit_expr, action_expr>>
    /\ UNCHANGED <<cursorVars, registryVars, resolved, entityVars, apiVars, graphVars>>
\* Query.sort(*criteria)
sort(criteria) ==
    /\ Len(for_exprs) > 0
    /\ Len(sort_expr) + Len(criteria) <= MaxSortCriteria
    /\ sort_expr' = sort_expr \o criteria
    /\ assembled' = ReturnSelf
    /\ UNCHANGED <<for_exprs, filter_expr, limit_expr, action_expr>>
    /\ UNCHANGED <<cursorVars, registryVars, resolved, entityVars, apiVars, graphVars>>
\* Query.limit(*args)
limit(offset, count) ==
    /\ Len(for_exprs) > 0
    /\ limit_expr' = Limit(offset, count)
    /\ assembled' = ReturnSelf
    /\ UNCHANGED <<for_exprs, filter_expr, sort_expr, action_expr>>
    /\ UNCHANGED <<cursorVars, registryVars, resolved, entityVars, apiVars, graphVars>>
\* Query.join(alias, from_list)
join(alias, from_list) ==
    /\ Len(for_exprs) \in 1..MaxJoins
    /\ for_exprs' = Append(for_exprs, For(alias, from_list))
    /\ assembled' = ReturnSelf
    /\ UNCHANGED <<filter_expr, sort_expr, limit_expr, action_expr>>
    /\ UNCHANGED <<cursorVars, registryVars, resolved, entityVars, apiVars, graphVars>>
\* Query.action(action)
action(act) ==
    /\ Len(for_exprs) > 0
    /\ action_expr' = IF act.kind = "Return" THEN act ELSE Return(act)
    /\ assembled' = ReturnSelf
    /\ UNCHANGED <<for_exprs, filter_expr, sort_expr, limit_expr>>
    /\ UNCHANGED <<cursorVars, registryVars, resolved, entityVars, apiVars, graphVars>>
\* A slip that falls back to RETURN <alias> when no action was set.
query_DefaultReturn ==
    /\ Len(for_exprs) > 0
    /\ assembled' =
          Expression_query("Query.query",
              Query_iter([Self EXCEPT !.action_expr = IF @ = None THEN Return(Foo) ELSE @]))
    /\ UNCHANGED <<for_exprs, filter_expr, sort_expr, limit_expr, action_expr>>
    /\ UNCHANGED <<cursorVars, registryVars, resolved, entityVars, apiVars, graphVars>>
\* Query.query(): iterating the missing action raises.
query ==
    /\ Len(for_exprs) > 0
    /\ assembled' =
          IF action_expr = None
          THEN [NotAssembled EXCEPT !.op = "Query.query", !.raised = "TypeError"]
          ELSE Expression_query("Query.query", Query_iter(Self))
    /\ UNCHANGED <<for_exprs, filter_expr, sort_expr, limit_expr, action_expr>>
    /\ UNCHANGED <<cursorVars, registryVars, resolved, entityVars, apiVars, graphVars>>
\* Filter(*filter_expr.exprs).query(): the filter clause assembled alone.
filter_query ==
    /\ Len(for_exprs) > 0
    /\ assembled' = Expression_query("Filter.query", Filter_iter(filter_expr))
    /\ UNCHANGED <<for_exprs, filter_expr, sort_expr, limit_expr, action_expr>>
    /\ UNCHANGED <<cursorVars, registryVars, resolved, entityVars, apiVars, graphVars>>
\* The criteria the application passes to filter(): a literal, a comparison
\* of an alias with a literal, or a criterion it has passed before.
NewCriteria ==
    {Raw("1")}
        \cup {Operator(Foo, Value(MaxValueId(filter_expr) + 1, v), Operator_EQ) : v \in Literals}

\* Query(alias, from_list)
QueryInit ==
    /\ for_exprs = <<For(Foo, Collection(1, "bar"))>>
    /\ action_expr = None
    /\ filter_expr = <<>>
    /\ sort_expr = <<>>
    /\ limit_expr = None
    /\ assembled = NotAssembled
    /\ CursorIdle
    /\ RegistryIdle
    /\ ApiIdle

\* The arguments the application passes to the other calls.
HeldCriteria ==
    {filter_expr[i] : i \in {j \in 1..Len(filter_expr) : filter_expr[j].kind = "Operator"}}
SortArgs == {<<Desc(AliasAttr(Foo, "bar"))>>}
LimitArgs == {<<NoOffset, "10">>, <<"1", "10">>}
JoinArgs == {<<Bar, CollectionOf(Len(for_exprs) + 1, UserType)>>}
ActionArgs == {Foo, Return(AliasAttr(Foo, "bar"))}

QueryNext ==
    \/ \E c \in NewCriteria : filter(<<c>>)
    \/ \E c \in HeldCriteria : filter(<<c>>)
    \/ \E criteria \in SortArgs : sort(criteria)
    \/ \E args \in LimitArgs : limit(args[1], args[2])
    \/ \E args \in JoinArgs : join(args[1], args[2])
    \/ \E act \in ActionArgs : action(act)
    \/ query
    \/ filter_query

QuerySpec == QueryInit /\ [][QueryNext]_vars

(***************************************************************************)
(* The constructor Query(alias, from_list, action, filter, sort, limit)    *)
(* with its filter and sort given as a clause instance, a list or tuple, a *)
(* single expression, or not at all.                                       *)
(***************************************************************************)
\* Filter(*exprs) and Sort(*exprs) instances, and a list or tuple
Filter(exprs) == [kind |-> "Filter", exprs |-> exprs]
Sort(exprs) == [kind |-> "Sort", exprs |-> exprs]
List(items) == [kind |-> "list", items |-> items]

\* Query._get_filter: the criteria of the new Filter()
get_filter(arg) ==
    CASE arg.kind = "Filter" -> [raised |-> "none", exprs |-> arg.exprs]
      [] arg.kind = "list" -> [raised |-> "none", exprs |-> arg.items]
      [] arg = None -> [raised |-> "none", exprs |-> <<>>]
      [] OTHER -> [raised |-> "none", exprs |-> <<arg>>]

\* Query._get_sort: the criteria of the new Sort().  For a Sort instance it
\* reads `Sort.exprs`, an attribute of the class; exprs is set on instances
\* by Chain.__init__ only, so the lookup raises.
get_sort(arg) ==
    CASE arg.kind = "Sort" -> [raised |-> "AttributeError", exprs |-> <<>>]
      [] arg.kind = "list" -> [raised |-> "none", exprs |-> arg.items]
      [] arg = None -> [raised |-> "none", exprs |-> <<>>]
      [] OTHER -> [raised |-> "none", exprs |-> <<arg>>]

\* Query.__init__: an exception leaves no Query behind.
Query_init(alias, from_list, act, filter_arg, sort_arg, limit_arg) ==
    /\ for_exprs = <<>>
    /\ LET f == get_filter(filter_arg)
           srt == get_sort(sort_arg)
       IN  IF srt.raised # "none"
           THEN /\ assembled' = [NotAssembled EXCEPT !.op = "Query", !.raised = srt.raised]
                /\ UNCHANGED <<for_exprs, filter_expr, sort_expr, limit_expr, action_expr>>
           ELSE /\ for_exprs' = <<For(alias, from_list)>>
                /\ action_expr' = act
                /\ filter_expr' = f.exprs
                /\ sort_expr' = srt.exprs
                /\ limit_expr' = limit_arg
                /\ assembled' = [NotAssembled EXCEPT !.op = "Query", !.raised = "none"]
    /\ UNCHANGED <<cursorVars, registryVars, resolved, entityVars, apiVars, graphVars>>

\* The criteria the application passes to the constructor.
FilterLists ==
    LET c1 == Operator(Foo, Value(1, "1"), Operator_EQ)
        c2 == Operator(Bar, Value(2, "2"), Operator_EQ)
    IN  {<<c1>>, <<c1, c2>>, <<c2, c1>>}
SortLists ==
    LET c1 == AliasAttr(Foo, "foo")
        c2 == Desc(AliasAttr(Foo, "bar"))
    IN  {<<c1>>, <<c1, c2>>, <<c2, c1>>}

\* The filter and sort arguments: nothing, a clause instance, a list or tuple,
\* a single expression.
FilterArguments ==
    {None} \cup {Filter(l) : l \in FilterLists} \cup {List(l) : l \in FilterLists}
        \cup {l[1] : l \in FilterLists}
SortArguments ==
    {None} \cup {Sort(l) : l \in SortLists} \cup {List(l) : l \in SortLists}
        \cup {l[1] : l \in SortLists}
LimitArguments == {None, Limit(NoOffset, "10")}

ConstructInit == QueryIdle /\ CursorIdle /\ RegistryIdle /\ ApiIdle

ConstructNext ==
    \/ \E f \in FilterArguments, srt \in SortArguments, l \in LimitArguments :
          Query_init(Foo, Collection(1, "bar"), Return(Foo), f, srt, l)
    \/ query
    \/ filter_query

ConstructSpec == ConstructInit /\ [][ConstructNext]_vars

(***************************************************************************)
(* Comparisons of an alias or a field path with a literal, passed to       *)
(* filter() and assembled as Filter(...).query().                          *)
(***************************************************************************)

\* The comparison operators of the query language (_EQ, _NE, _LT, _LE, _GT, _GE).
Comparisons == {"==", "!=", "<", "<=", ">", ">="}

\* a <op> b on an Expression a.  __eq__, __lt__, __le__, __gt__ and __ge__
\* build an Operator; the class has no __ne__, so a != b is the interpreter's
\* default comparison of two distinct objects, the plain value True.
Expression_compare(a, op, b) ==
    IF op = "!=" THEN Raw("True") ELSE Operator(a, b, Term(op))

\* The left-hand sides the application compares: an alias, a field path.
CompareAliases == {Foo, AliasAttr(Foo, "bar")}

\* alias <op> 1 for the next comparison the application writes.
Comparison(a, op) == Expression_compare(a, op, Value(MaxValueId(filter_expr) + 1, "1"))

CompareInit == QueryInit

CompareNext ==
    \/ \E a \in CompareAliases, op \in Comparisons : filter(<<Comparison(a, op)>>)
    \/ filter_query

CompareSpec == CompareInit /\ [][CompareNext]_vars

(***************************************************************************)
(* Cursor.find(doc, **kwargs): the convenience filter query.               *)
(***************************************************************************)

\* Field names, listed in the order str compares them.
FieldNames == <<"bar", "baz", "foo", "qux", "zap">>
Fields == {FieldNames[i] : i \in 1..MaxFields}
FieldValues == {"1", "2"}

\* k1 < k2 on the names.
NameBefore(k1, k2) ==
    (CHOOSE i \in 1..Len(FieldNames) : FieldNames[i] = k1)
        < (CHOOSE i \in 1..Len(FieldNames) : FieldNames[i] = k2)

\* kwargs.iteritems(): the (k, v) pairs of the dict in the order the dict
\* happens to hand them out; every name at most once.
Items ==
    {items \in SeqsUpTo([k : Fields, v : FieldValues], MaxFields) :
        \A i, j \in 1..Len(items) : i # j => items[i].k # items[j].k}

\* A slip that leaves the pairs in the order of iteration.
sorted_Unsorted(items) == items

\* sorted(items): the pairs in ascending order of (k, v); the names differ.
RECURSIVE sorted(_)
sorted(items) ==
    IF Len(items) = 0 THEN <<>>
    ELSE LET least == CHOOSE i \in 1..Len(items) :
                          \A j \in 1..Len(items) : j # i => NameBefore(items[i].k, items[j].k)
         IN  <<items[least]>>
                \o sorted([n \in 1..(Len(items) - 1) |->
                              IF n < least THEN items[n] ELSE items[n + 1]])

\* tmpl_bind: obj.`k` == @param_k
tmpl_bind(k, v) == "obj." \o BackQuote \o k \o BackQuote \o " == @param_" \o k

\* sep.join(strings)
RECURSIVE str_join(_, _)
str_join(sep, strings) ==
    IF Len(strings) = 0 THEN ""
    ELSE IF Len(strings) = 1 THEN strings[1]
    ELSE strings[1] \o sep \o str_join(sep, Tail(strings))

\* tmpl: FOR {obj} IN {collection} {filter} RETURN {obj}
tmpl(collection, filter_str) ==
    "FOR obj IN " \o collection \o " " \o filter_str \o " RETURN obj"

\* {'param_{}'.format(k): v for k, v in kwargs.iteritems()}
RECURSIVE BindOf(_)
BindOf(items) ==
    IF Len(items) = 0 THEN EmptyDict
    ELSE Update(BindOf(SubSeq(items, 1, Len(items) - 1)),
                ("param_" \o items[Len(items)].k) :> items[Len(items)].v)

\* The doc argument: a collection name or an entity type.
Basestring(name) == [kind |-> "basestring", name |-> name, cls |-> NoClass]
DocumentType(cls) == [kind |-> "class", name |-> "", cls |-> cls]
FindDocs ==
    {Basestring("User"), Basestring("offers"), DocumentType(UserType),
     DocumentType(NewClass(Len(ModuleClasses) + 2, "foo", "foo", "MetaDocumentBase"))}

\* Cursor.find(doc, **kwargs), kwargs iterated in the order items: the
\* classmethod makes the Cursor, there is none before the call.
find(doc, items) ==
    LET collection == IF doc.kind = "basestring" THEN doc.name ELSE doc.cls.collection
        ordered == sorted(items)
        filter_str ==
            IF Len(items) # 0
            THEN str_join(" ", <<"FILTER",
                     str_join(" AND ",
                         [i \in 1..Len(ordered) |-> tmpl_bind(ordered[i].k, ordered[i].v)])>>)
            ELSE ""
    IN  /\ this = Cursor("", None)
        /\ found' = [doc |-> doc, items |-> items]
        /\ this' = Cursor(tmpl(collection, filter_str), BindOf(items))
        /\ UNCHANGED <<script, served, pc, cursor, pos, yielded, calls, run, failAt>>
        /\ UNCHANGED <<registryVars, resolved, entityVars, queryVars, apiVars, graphVars>>
FindInit == CursorIdle /\ RegistryIdle /\ QueryIdle /\ ApiIdle

FindNext == \E doc \in FindDocs, items \in Items : find(doc, items)

FindSpec == FindInit /\ [][FindNext]_vars

(***************************************************************************)
(* The result handling of the transport: api.json_result and the error     *)
(* classes of exc.py.                                                      *)
(***************************************************************************)
\* The values of a JSON document.
Number(n) == [kind |-> "int", value |-> n]
Bool(b) == [kind |-> "bool", value |-> b]
Text(t) == [kind |-> "unicode", value |-> t]

\* dict.get(key): None for a key that is missing.
Get(dct, key) == IF key \in DOMAIN dct THEN dct[key] ELSE None

\* The class statements of exc.py that have MetaApiError as their metaclass,
\* in source order; error_num is the entry of the class body, None where the
\* body has none.
ErrorClasses ==
    << [name |-> "ApiError", error_num |-> None],
       [name |-> "CollectionNotFound", error_num |-> Number(1203)],
       [name |-> "CollectionTypeInvalid", error_num |-> Number(1218)],
       [name |-> "DatabaseNotFound", error_num |-> Number(1228)],
       [name |-> "UniqueConstraintViolated", error_num |-> Number(1210)],
       [name |-> "GraphError", error_num |-> None],
       [name |-> "EdgeCollectionAlreadyUsed", error_num |-> Number(1921)],
       [name |-> "GraphNotFound", error_num |-> Number(1924)] >>

\* MetaApiError.__new__ for the first n class statements: base and classes.
RECURSIVE MetaApiError_new(_)
MetaApiError_new(n) ==
    IF n = 0 THEN [base |-> None, classes |-> <<>>]
    ELSE LET mcs == MetaApiError_new(n - 1)
             cls == ErrorClasses[n]
         IN  IF mcs.base = None THEN [mcs EXCEPT !.base = [kind |-> "class", name |-> cls.name]]
             ELSE IF cls.error_num # None
                  THEN [mcs EXCEPT !.classes = SetItem(@, cls.error_num, cls.name)]
                  ELSE mcs

\* MetaApiError after the module was imported.
MetaApiError == MetaApiError_new(Len(ErrorClasses))

\* A slip that leaves the polymorphic lookup out.
MetaApiError_call_NoLookup(cls, code, num, message) ==
    [raised |-> cls, code |-> code, num |-> num, message |-> message, content |-> <<>>]

\* MetaApiError.__call__(cls, code, num, message): the instance that is raised.
MetaApiError_call(cls, code, num, message) ==
    [raised |-> IF Contains(MetaApiError.classes, num)
                THEN GetItem(MetaApiError.classes, num) ELSE cls,
     code |-> code, num |-> num, message |-> message, content |-> <<>>]

\* A content-type header value, split after its first 16 characters.
ContentTypes ==
    {<<"application/json", "">>, <<"application/json", "; charset=utf-8">>,
     <<"text/html", "">>, <<"", "">>}

\* value.startswith('application/json')
StartsWithJson(value) == value[1] = "application/json"

\* The JSON documents a server sends: any of the keys may be missing.
ErrorNums == {1203, 1218, 1228, 1210, 1921, 1924, 1200}
JsonContents ==
    {[k \in keys |-> full[k]] :
        keys \in SUBSET {"error", "code", "errorNum", "errorMessage"},
        full \in {("error" :> Bool(e)) @@ ("code" :> Number(404)) @@ ("errorNum" :> Number(n))
                      @@ ("errorMessage" :> Text("not found")) :
                    e \in BOOLEAN, n \in ErrorNums}}
Responses == [content_type : ContentTypes, json : JsonContents]

\* The function json_result wraps has received resp.
json_result(resp) ==
    /\ response' = resp
    /\ outcome' =
          IF StartsWithJson(resp.content_type)
          THEN LET json_content == resp.json
               IN  IF "error" \in DOMAIN json_content /\ json_content["error"] = Bool(TRUE)
                   THEN MetaApiError_call("ApiError", Get(json_content, "code"),
                            Get(json_content, "errorNum"), Get(json_content, "errorMessage"))
                   ELSE [NoOutcome EXCEPT !.raised = "none", !.content = json_content]
          ELSE [NoOutcome EXCEPT !.raised = "ContentTypeException"]
    /\ UNCHANGED <<cursorVars, registryVars, resolved, entityVars, queryVars, graphVars>>

ApiInit == ApiIdle /\ CursorIdle /\ RegistryIdle /\ QueryIdle

ApiNext == \E resp \in Responses : json_result(resp)

ApiSpec == ApiInit /\ [][ApiNext]_vars

(***************************************************************************)
(* A Graph class statement (graph.py): its body declares one GraphEdge     *)
(* class, `class edge(graph.GraphEdge, e2)`, and GraphVertex classes over   *)
(* Document classes; vertices are registered with edge.from_vertex and     *)
(* edge.to_vertex.                                                         *)
(***************************************************************************)
\* The attribute names of the vertex classes, in the order dir() lists them.
VertexNames == <<"v1", "v2", "v3", "v4">>
Vertices == {VertexNames[i] : i \in 1..MaxVertices}

\* The Document classes the vertex classes are built on.
DocumentNames == {"D1", "D2"}

\* The elements of a list.
Range(list) == {list[i] : i \in 1..Len(list)}

\* class <name>(graph.GraphVertex, <doc>): MetaGraphVertex.__init__ sets the
\* collection name to that of the first Document base (find_collection_name).
class_vertex(name, doc) ==
    /\ ~graph.created
    /\ name \notin DOMAIN body
    /\ body' = Update(body, name :> doc)
    /\ UNCHANGED <<from_vertices, to_vertices, graph>>
    /\ UNCHANGED <<cursorVars, registryVars, resolved, entityVars, queryVars, apiVars>>

\* edge.from_vertex(vertex), edge.to_vertex(vertex)
from_vertex(vertex) ==
    /\ vertex \in DOMAIN body
    /\ from_vertices' = IF vertex \notin Range(from_vertices)
                        THEN Append(from_vertices, vertex) ELSE from_vertices
    /\ UNCHANGED <<body, to_vertices, graph>>
    /\ UNCHANGED <<cursorVars, registryVars, resolved, entityVars, queryVars, apiVars>>

to_vertex(vertex) ==
    /\ vertex \in DOMAIN body
    /\ to_vertices' = IF vertex \notin Range(to_vertices)
                      THEN Append(to_vertices, vertex) ELSE to_vertices
    /\ UNCHANGED <<body, from_vertices, graph>>
    /\ UNCHANGED <<cursorVars, registryVars, resolved, entityVars, queryVars, apiVars>>

\* MetaGraph.__init__, `for name in dir(cls)` over the first n names:
\* __graph_vertices__[attr.__collection_name__] = attr
RECURSIVE MetaGraph_init(_, _)
MetaGraph_init(dct, n) ==
    IF n = 0 THEN EmptyDict
    ELSE LET name == VertexNames[n]
             vertices == MetaGraph_init(dct, n - 1)
         IN  IF name \in DOMAIN dct THEN Update(vertices, dct[name] :> name) ELSE vertices

\* The end of the Graph class statement.
class_Graph ==
    /\ ~graph.created
    /\ graph' = [created |-> TRUE,
                 graph_edges |-> ("e2" :> "edge"),
                 graph_vertices |-> MetaGraph_init(body, Len(VertexNames))]
    /\ UNCHANGED <<body, from_vertices, to_vertices>>
    /\ UNCHANGED <<cursorVars, registryVars, resolved, entityVars, queryVars, apiVars>>

\* MetaGraphEdge.__definition__ of the edge class
MetaGraphEdge_definition ==
    [collection |-> "e2",
     from |-> [i \in 1..Len(from_vertices) |-> body[from_vertices[i]]],
     to |-> [i \in 1..Len(to_vertices) |-> body[to_vertices[i]]]]

\* MetaGraph.__definition__; the dicts are iterated in no particular order,
\* so the lists are taken as sets.
MetaGraph_definition ==
    LET in_edge == Range(from_vertices) \cup Range(to_vertices)
    IN  [name |-> "G1",
         edgeDefinitions |-> {MetaGraphEdge_definition},
         orphanCollections |->
            {name \in DOMAIN graph.graph_vertices : graph.graph_vertices[name] \notin in_edge}]

GraphInit == ApiIdle /\ CursorIdle /\ RegistryIdle /\ QueryIdle

GraphNext ==
    \/ \E name \in Vertices, doc \in DocumentNames : class_vertex(name, doc)
    \/ \E vertex \in Vertices : from_vertex(vertex)
    \/ \E vertex \in Vertices : to_vertex(vertex)
    \/ class_Graph

GraphSpec == GraphInit /\ [][GraphNext]_vars

(***************************************************************************)
(* Claims about the query assembler.                                       *)
(***************************************************************************)
\* The leaves the last assembly went through, with their identities.
AssembledLeaves ==
    IF assembled.raised # "none" THEN <<>>
    ELSE IF assembled.op = "Query.query" THEN Traversal(Query_iter(Self))
    ELSE Traversal(Filter_iter(filter_expr))

\* The positions of the Value nodes, and the value parameters of the map.
ValuePositions == {i \in 1..Len(AssembledLeaves) : AssembledLeaves[i].kind = "Value"}
ValueParams ==
    {Param("value", n, FALSE) : n \in 0..Len(assembled.terms)} \cap DOMAIN assembled.params

\* C6: (as stated) Value nodes wrapping equal literals get one bind
\* parameter: no two value parameters of one assembly hold the same literal.
C6_EqualLiteralsShareOneParameter ==
    \A n1 \in ValueParams, n2 \in ValueParams :
        assembled.params[n1] = assembled.params[n2] => n1 = n2

\* C6: (amended) two occurrences of Value nodes render the same
\* bind-parameter name exactly when they are the same node; every Value
\* node has one parameter of its own, bound to its literal, also when
\* another node wraps an equal literal.
C6_SameNodeSharesOneParameter ==
    /\ \A i \in ValuePositions, j \in ValuePositions :
          assembled.terms[i] = assembled.terms[j] <=> AssembledLeaves[i] = AssembledLeaves[j]
    /\ \A i \in ValuePositions :
          \E n \in ValueParams :
              /\ assembled.terms[i] = "@" \o n
              /\ assembled.params[n] = AssembledLeaves[i].value
    /\ Cardinality(ValueParams) = Cardinality({AssembledLeaves[i].id : i \in ValuePositions})

C6_Witness ==
    \E i \in ValuePositions, j \in ValuePositions :
        /\ i < j
        /\ AssembledLeaves[i] = AssembledLeaves[j]
        /\ assembled.terms[i] = assembled.terms[j]
        /\ Cardinality(ValueParams) = 1

\* The positions of the Collection nodes, and a node's number among the
\* distinct Collection nodes in the order of their first occurrence.
CollectionPositions ==
    {i \in 1..Len(AssembledLeaves) : AssembledLeaves[i].kind = "Collection"}

\* C16: (as stated) a Collection node with index n renders as @@c_<n> and
\* contributes one parameter keyed c_<n> that holds the collection name.
C16_CollectionParameterKeyedWithoutAt ==
    \A i \in CollectionPositions :
        \E n \in 0..Len(assembled.terms) :
            /\ assembled.terms[i] = "@@c_" \o ToString(n)
            /\ ("c_" \o ToString(n)) \in DOMAIN assembled.params
            /\ assembled.params["c_" \o ToString(n)] = AssembledLeaves[i].value

\* C16: (amended) a Collection node with index n renders as @@c_<n> and
\* contributes exactly one parameter, keyed @c_<n>, that holds the collection
\* name, the declared collection name for a node built from an entity type.
C16_CollectionParameterKeyedWithAt ==
    /\ \A i \in CollectionPositions :
          \E n \in 0..Len(assembled.terms) :
              /\ assembled.terms[i] = "@@c_" \o ToString(n)
              /\ ("@c_" \o ToString(n)) \in DOMAIN assembled.params
              /\ assembled.params["@c_" \o ToString(n)] = AssembledLeaves[i].value
              /\ ("c_" \o ToString(n)) \notin DOMAIN assembled.params
    /\ Cardinality(DOMAIN assembled.params \ ValueParams)
          = Cardinality({AssembledLeaves[i].id : i \in CollectionPositions})
    /\ \A k \in 2..Len(for_exprs) : for_exprs[k].list_expr.value = "users"

C16_Witness ==
    /\ assembled.op = "Query.query" /\ assembled.raised = "none"
    /\ Len(for_exprs) = 2
    /\ \E i \in CollectionPositions : assembled.terms[i] = "@@c_1"
    /\ assembled.params["@c_1"] = "users"
    /\ assembled.params["@c_0"] = "bar"

\* The number the node at position i has among the distinct nodes of its
\* kind in leaves, in the order of their first occurrence, counted from 0.
NumberAmong(leaves, i) ==
    Cardinality({leaves[j] : j \in {k \in 1..(i - 1) :
                                     /\ leaves[k].kind = leaves[i].kind
                                     /\ \A n \in 1..k : leaves[n] # leaves[i]}})

\* C24: within one assembly each node type has its own index counter: the
\* nodes of one type receive 0, 1, 2, ... without gaps in the order of their
\* first occurrence, a node that occurs again receives the index of its
\* first occurrence, and nodes of another type do not advance the counter.
C24_EachTypeCountsItsOwnNodes ==
    LET leaves == AssembledLeaves
    IN  \A i \in 1..Len(leaves) :
            /\ leaves[i].kind = "Value" =>
                  assembled.terms[i] = Param("value", NumberAmong(leaves, i), TRUE)
            /\ leaves[i].kind = "Collection" =>
                  assembled.terms[i] = Param("@c", NumberAmong(leaves, i), TRUE)

C24_Witness ==
    /\ assembled.op = "Query.query" /\ assembled.raised = "none"
    /\ \E i \in CollectionPositions, j \in ValuePositions, k \in ValuePositions :
          /\ assembled.terms[i] = "@@c_1"
          /\ i < j /\ j < k
          /\ assembled.terms[j] = "@value_0"
          /\ assembled.terms[k] = "@value_1"

\* The positions of the FOR keywords in the assembled terms.
ForPositions ==
    {i \in 1..Len(assembled.terms) : assembled.terms[i] = "FOR"}

\* C27: in the assembled text of a Query holding two or more For clauses the
\* clauses appear in the order they were added, and every For clause after
\* the first is preceded by a space, so that the last token of a clause is
\* never concatenated with the FOR keyword of the next.
C27_ForClausesSeparatedBySpace ==
    (assembled.op = "Query.query" /\ assembled.raised = "none" /\ Len(for_exprs) >= 2) =>
        /\ Cardinality(ForPositions) = Len(for_exprs)
        /\ \A i \in ForPositions :
              /\ assembled.terms[i + 2]
                    = for_exprs[Cardinality({j \in ForPositions : j <= i})].alias_expr.text
              /\ i > 1 => assembled.terms[i - 1] = " "

\* The criteria a filter or sort argument gives, in the given order.
GivenCriteria(arg) ==
    CASE arg.kind \in {"Filter", "Sort"} -> arg.exprs
      [] arg.kind = "list" -> arg.items
      [] arg = None -> <<>>
      [] OTHER -> <<arg>>

\* C28: a Query constructed with its filter or sort given as a clause
\* instance, as a list or tuple, or as a single expression is constructed
\* successfully and holds exactly the given criteria, in the given order, in
\* its filter and sort clauses, which is what its assembly renders.
C28_ConstructorTakesClausesListsAndExpressions ==
    [][\A f \in FilterArguments, srt \in SortArguments, l \in LimitArguments :
          Query_init(Foo, Collection(1, "bar"), Return(Foo), f, srt, l) =>
              /\ assembled'.raised = "none"
              /\ filter_expr' = GivenCriteria(f)
              /\ sort_expr' = GivenCriteria(srt)]_vars

\* C17: query() on a Query whose action was never set raises and returns
\* neither a query text nor a parameter map.
C17_QueryWithoutActionRaises ==
    (assembled.op = "Query.query" /\ action_expr = None) =>
        /\ assembled.raised # "none"
        /\ assembled.text = ""
        /\ assembled.terms = <<>>
        /\ assembled.params = <<>>

C17_Witness ==
    /\ assembled.op = "Query.query"
    /\ assembled.raised = "TypeError"
    /\ action_expr = None
    /\ Len(filter_expr) > 0
    /\ limit_expr # None

\* C19: each of the comparisons ==, !=, <, <=, >, >= between an alias or a
\* field path and a literal produces an Operator node, which assembles to
\* `<alias> <op> @value_<n>` with the literal bound as value_<n>.
C19_ComparisonsProduceOperators ==
    [][\A a \in CompareAliases, op \in Comparisons :
          filter(<<Comparison(a, op)>>) =>
              LET c == filter_expr'[Len(filter_expr')]
              IN  /\ c.kind = "Operator"
                  /\ Expression_query("Operator.query", Iter(c)).terms
                        = <<get_term(a, 0), " ", op, " ", "@value_0">>
                  /\ Expression_query("Operator.query", Iter(c)).params
                        = ("value_0" :> "1")]_vars

\* The clauses a call leaves alone.
Unchanged(clauses) == \A c \in DOMAIN Self : c \in clauses => Self'[c] = Self[c]

ClauseRank(term) ==
    CASE term = "FOR" -> 1
      [] term = "FILTER" -> 2
      [] term = "SORT" -> 3
      [] term = "LIMIT" -> 4
      [] term = "RETURN" -> 5
      [] OTHER -> 0

ClausePositions(keyword) == {i \in 1..Len(assembled.terms) : assembled.terms[i] = keyword}

\* C7: whatever the order of the filter, sort, limit, join and action calls,
\* the text of a Query has one FOR clause per For, then one FILTER clause
\* iff there is a filter criterion, then one SORT clause iff there is a sort
\* criterion, then one LIMIT clause iff a limit is set, then the action.
C7_ClausesInFixedOrder ==
    assembled.op = "Query.query" /\ assembled.raised = "none" =>
        /\ Cardinality(ClausePositions("FOR")) = Len(for_exprs)
        /\ Cardinality(ClausePositions("FILTER")) = (IF Len(filter_expr) > 0 THEN 1 ELSE 0)
        /\ Cardinality(ClausePositions("SORT")) = (IF Len(sort_expr) > 0 THEN 1 ELSE 0)
        /\ Cardinality(ClausePositions("LIMIT")) = (IF limit_expr # None THEN 1 ELSE 0)
        /\ Cardinality(ClausePositions("RETURN")) = 1
        /\ assembled.terms[1] = "FOR"
        /\ \A i \in 1..Len(assembled.terms), j \in 1..Len(assembled.terms) :
              (i < j /\ ClauseRank(assembled.terms[i]) > 0 /\ ClauseRank(assembled.terms[j]) > 0)
              => /\ ClauseRank(assembled.terms[i]) <= ClauseRank(assembled.terms[j])
                 /\ ClauseRank(assembled.terms[i]) = ClauseRank(assembled.terms[j])
                       => assembled.terms[i] = "FOR"

C7_Witness ==
    /\ assembled.op = "Query.query" /\ assembled.raised = "none"
    /\ Len(for_exprs) = 2
    /\ ClausePositions("FILTER") # {}
    /\ ClausePositions("SORT") # {}
    /\ ClausePositions("LIMIT") # {}

(***************************************************************************)
(* Claims about the result handling of the transport.                      *)
(***************************************************************************)

\* The error kind that stands for an errorNum.
ErrorKind(num) ==
    CASE num = Number(1203) -> "CollectionNotFound"
      [] num = Number(1218) -> "CollectionTypeInvalid"
      [] num = Number(1228) -> "DatabaseNotFound"
      [] num = Number(1210) -> "UniqueConstraintViolated"
      [] num = Number(1921) -> "EdgeCollectionAlreadyUsed"
      [] num = Number(1924) -> "GraphNotFound"
      [] OTHER -> "ApiError"

\* C21: a JSON response that declares error=true with errorNum n is raised as
\* the error kind registered for n and, for any other n, as the generic API
\* error; the error carries the response's code, errorNum and errorMessage; a
\* response that is not JSON is raised as a content-type error.
C21_ErrorResponseRaisesItsKind ==
    response # NoResponse =>
        /\ ~StartsWithJson(response.content_type) =>
                outcome.raised = "ContentTypeException"
        /\ (/\ StartsWithJson(response.content_type)
            /\ "error" \in DOMAIN response.json
            /\ response.json["error"] = Bool(TRUE)) =>
                /\ outcome.raised = ErrorKind(Get(response.json, "errorNum"))
                /\ outcome.code = Get(response.json, "code")
                /\ outcome.num = Get(response.json, "errorNum")
                /\ outcome.message = Get(response.json, "errorMessage")

C21_Witness ==
    /\ response.content_type = <<"application/json", "; charset=utf-8">>
    /\ outcome.raised = "GraphNotFound"
    /\ outcome.num = Number(1924)
    /\ outcome.code = Number(404)
    /\ outcome.message = Text("not found")

(***************************************************************************)
(* Claims about graph definitions.                                         *)
(***************************************************************************)

\* Whether no element occurs twice in a list.
NoDuplicates(list) == \A i, j \in 1..Len(list) : list[i] = list[j] => i = j

\* C23: a graph's definition lists as orphanCollections exactly the
\* collection names of its vertex types that were not registered as
\* from-vertex or to-vertex of any of its edge types, and each edge
\* definition lists the collection names of its registered from and to
\* vertices in registration order, each at most once however often it was
\* registered.
C23_DefinitionListsOrphansAndEndpoints ==
    /\ [](graph.created =>
            /\ MetaGraph_definition.orphanCollections =
                  {body[v] : v \in DOMAIN body \ (Range(from_vertices) \cup Range(to_vertices))}
            /\ NoDuplicates(MetaGraphEdge_definition.from)
            /\ NoDuplicates(MetaGraphEdge_definition.to))
    /\ [][\A v \in Vertices :
            /\ from_vertex(v) =>
                  MetaGraphEdge_definition.from' =
                      IF v \in Range(from_vertices)
                      THEN MetaGraphEdge_definition.from
                      ELSE Append(MetaGraphEdge_definition.from, body[v])
            /\ to_vertex(v) =>
                  MetaGraphEdge_definition.to' =
                      IF v \in Range(to_vertices)
                      THEN MetaGraphEdge_definition.to
                      ELSE Append(MetaGraphEdge_definition.to, body[v])]_vars

(***************************************************************************)
(* Claims about Cursor.find.                                               *)
(***************************************************************************)

\* The names of the criteria in lexical order, and `c1 AND c2 AND ...` over
\* the names from position n on.
NamesOf(items) ==
    SelectSeq(FieldNames, LAMBDA k : \E i \in 1..Len(items) : items[i].k = k)

RECURSIVE Conjunction(_)
Conjunction(names) ==
    IF Len(names) = 0 THEN ""
    ELSE "obj." \o BackQuote \o Head(names) \o BackQuote \o " == @param_" \o Head(names)
            \o (IF Len(names) > 1 THEN " AND " ELSE "")
            \o Conjunction(Tail(names))

Instances == 1..Len(instances)

\* A successful save of instances[i] answered with key and rev: one call, a
\* create exactly when the instance had no `_id`, otherwise a replace addressed
\* by its `_id`; afterwards the three fields equal the response's.
SaveCallsAndCopiesBack(i, key, rev) ==
    save(i, key, rev) /\ result'.raised = "none" =>
        /\ Len(result'.calls) = 1
        /\ IF HasId(instances[i].data)
           THEN result'.calls[1] =
                   [op |-> "replace", handle |-> instances[i].data["_id"].parts]
           ELSE result'.calls[1].op = "create"
        /\ \A k \in {"_id", "_key", "_rev"} :
              /\ k \in DOMAIN instances'[i].data
              /\ instances'[i].data[k] = SaveResponse(instances[i], key, rev)[k]

\* C3: for an instance that starts without `_id`, the first successful save
\* issues a create and every later one a replace addressed by the current
\* `_id`, never a second create; after each save `_id`, `_key` and `_rev`
\* equal those of that call's response.
C3_FirstSaveCreatesLaterSavesReplace ==
    /\ [](\A i \in Instances : instances[i].creates <= 1)
    /\ [][\A i \in Instances, key \in Keys, rev \in Revs :
            SaveCallsAndCopiesBack(i, key, rev)]_vars

C3_Witness ==
    /\ result.op = "save" /\ result.raised = "none"
    /\ result.calls[1].op = "replace"
    /\ instances[result.inst].creates = 1

\* C8: save on an edge without `_id` that lacks `_from` or `_to` raises before
\* any transport call is made and leaves the edge without `_id`.
C8_SaveOfIncompleteEdgeRaisesBeforeAnyCall ==
    [][\A i \in Instances, key \in Keys, rev \in Revs :
         (/\ save(i, key, rev)
          /\ IsEdge(instances[i].cls)
          /\ "_id" \notin DOMAIN instances[i].data
          /\ ("_from" \notin DOMAIN instances[i].data \/ "_to" \notin DOMAIN instances[i].data))
         => /\ result'.raised # "none"
            /\ result'.calls = <<>>
            /\ "_id" \notin DOMAIN instances'[i].data]_vars

C8_Witness ==
    /\ result.op = "save" /\ result.raised = "TypeError"
    /\ IsEdge(instances[result.inst].cls)
    /\ "_id" \notin DOMAIN instances[result.inst].data
    /\ "_from" \in DOMAIN instances[result.inst].data

\* Item assignment of a held document to an endpoint of edge i.
AssignmentStoresId(i, key, value) ==
    setitem(i, key, value) /\ value.kind = "doc" =>
        IF "_id" \in DOMAIN instances[value.ref].data
        THEN /\ result'.raised = "none"
             /\ instances'[i].data[key] = instances[value.ref].data["_id"]
             /\ instances'[i].data[key].kind = "str"
        ELSE /\ result'.raised = "TypeError"
             /\ instances'[i].data = instances[i].data

\* Two leading constructor arguments of which at least one is a held document.
ConstructorStoresIds(args, kw) ==
    LET key(n) == IF n = 1 THEN "_from" ELSE "_to"
        docs == {n \in 1..2 : args[n].kind = "doc"}
    IN  construct_edge(args, kw) /\ docs # {} =>
        IF \E n \in docs : "_id" \notin DOMAIN instances[args[n].ref].data
        THEN result'.raised = "TypeError" /\ instances' = instances
        ELSE /\ result'.raised = "none"
             /\ \A n \in docs : key(n) \notin DOMAIN kw =>
                   /\ instances'[Len(instances')].data[key(n)] =
                         instances[args[n].ref].data["_id"]
                   /\ instances'[Len(instances')].data[key(n)].kind = "str"

\* C9: assigning a document to an edge's `_from` or `_to`, by item assignment
\* or as a leading constructor argument, stores the document's `_id` string;
\* a document without `_id` raises TypeError and the field keeps its value.
C9_EndpointAssignmentStoresIdString ==
    [][/\ \A i \in Instances, key \in {"_from", "_to"}, value \in AppValues :
            AssignmentStoresId(i, key, value)
       /\ \A args \in AppValues \X AppValues, kw \in EdgeKw :
            ConstructorStoresIds(args, kw)]_vars

C9_Witness ==
    /\ result.op = "setitem" /\ result.raised = "TypeError"
    /\ "_from" \in DOMAIN instances[result.inst].data
    /\ \E d \in Instances : "_id" \notin DOMAIN instances[d].data

\* C10: after Edge.load returns, `_from` and `_to` of the edge hold loaded
\* document instances, not id strings.
C10_LoadedEdgeHoldsDocuments ==
    result.op = "Edge.load" /\ result.raised = "none" =>
        /\ instances[result.inst].data["_from"].kind = "doc"
        /\ instances[result.inst].data["_to"].kind = "doc"

\* C29: delete() issues one delete call addressed by the instance's `_id` and
\* leaves every field of the local instance unchanged; a save() that follows
\* a delete() issues a replace on the deleted identifier, never a create.
C29_DeleteKeepsTheInstance ==
    [][/\ \A i \in 1..Len(instances) :
            (HasId(instances[i].data) /\ delete(i)) =>
                /\ result'.raised = "none"
                /\ result'.calls =
                      <<[op |-> "delete", handle |-> instances[i].data["_id"].parts]>>
                /\ instances' = instances
       /\ \A i \in 1..Len(instances), key \in Keys, rev \in Revs :
            (/\ result.op = "delete" /\ result.raised = "none" /\ result.inst = i
             /\ save(i, key, rev)) =>
                result'.calls = <<[op |-> "replace", handle |-> result.calls[1].handle]>>]_vars

C29_Witness ==
    /\ result.op = "delete" /\ result.raised = "none"
    /\ "_rev" \in DOMAIN instances[result.inst].data
    /\ instances[result.inst].creates = 1

\* C30: if the transport call made by save() fails, the error reaches the
\* caller after exactly that one call and the instance's fields are
\* unchanged; an instance without `_id` still has none, so the next save()
\* issues a create again.
C30_FailedSaveChangesNothing ==
    [][/\ \A i \in 1..Len(instances) :
            save_transport_error(i) =>
                /\ result'.raised = "ApiError"
                /\ Len(result'.calls) = 1
                /\ instances' = instances
       /\ \A i \in 1..Len(instances), key \in Keys, rev \in Revs :
            (/\ result.op = "save" /\ result.raised = "ApiError" /\ result.inst = i
             /\ ~HasId(instances[i].data)
             /\ save(i, key, rev)) =>
                result'.calls = <<[op |-> "create", handle |-> <<instances[i].cls.collection>>]>>]_vars

C30_Witness ==
    /\ result.op = "save" /\ result.raised = "ApiError"
    /\ result.calls[1].op = "create"
    /\ ~HasId(instances[result.inst].data)

\* C26: however an Edge was constructed (positional endpoints, a mapping
\* argument, keyword arguments) and whatever item assignments and update()
\* calls followed, the values stored under `_from` and `_to` are never
\* Document instances.
C26_EndpointsAreNeverDocuments ==
    \A i \in 1..Len(instances) :
        IsEdge(instances[i].cls) =>
            \A key \in EndpointKeys \cap DOMAIN instances[i].data :
                instances[i].data[key].kind # "doc"

Registered == {classes[i] : i \in 1..Len(classes)} \ {document_base, edge_base}

\* Every name of the ordered mapping od occurs once, and maps to the first
\* class that was declared under it.
MapsToFirstDeclared(od) ==
    \A i \in 1..Len(od) :
        /\ \A j \in 1..Len(od) : od[j].key = od[i].key => j = i
        /\ od[i].value \in Registered
        /\ od[i].value.collection = od[i].key
        /\ \A c \in Registered : c.collection = od[i].key => c.id >= od[i].value.id

\* A class statement whose collection name is taken raises and changes neither
\* registry.
DuplicateDeclarationRaises ==
    ((import_db \/ declare) /\ Contains(documents, declared'.cls.collection))
        => /\ declared'.raised = "TypeError"
           /\ documents' = documents
           /\ edges' = edges
           /\ classes' = classes

\* C5: after any sequence of class statements each collection name of the
\* document registry and of the edge registry maps to exactly one type, the
\* first one declared under it; a class statement (document or edge) whose
\* collection name is already registered raises TypeError and leaves both
\* registries as they were.
C5_CollectionNamesAreUnique ==
    /\ [](MapsToFirstDeclared(documents) /\ MapsToFirstDeclared(edges))
    /\ [][DuplicateDeclarationRaises]_vars

C5_Witness ==
    /\ declared.raised = "TypeError"
    /\ declared.cls.meta = "MetaEdgeBase"
    /\ Contains(edges, declared.cls.collection)
    /\ Len(documents) = MaxDeclarations

\* The values of an ordered mapping.
Values(od) == {od[i].value : i \in 1..Len(od)}

C15_MalformedIdRaisesTypeError ==
    resolved # NotResolved =>
        LET dct == resolved.dct
        IN  ("_id" \notin DOMAIN dct \/ Len(dct["_id"].parts) # 2)
                => resolved.raised = "TypeError"

\* C4: _polymorph(record), for a record whose `_id` is "<collection>/<key>"
\* with <collection> registered, returns an instance of the type registered
\* under <collection> that holds all fields of the record; for a record
\* without `_id` or with an unregistered <collection> it raises TypeError and
\* builds no instance.
C4_PolymorphResolvesRegisteredType ==
    resolved # NotResolved =>
        LET dct == resolved.dct
            wellFormed == "_id" \in DOMAIN dct /\ Len(dct["_id"].parts) = 2
            collection == dct["_id"].parts[1]
        IN  /\ (wellFormed /\ Contains(documents, collection)) =>
                  /\ resolved.raised = "none"
                  /\ \E i \in 1..Len(documents) :
                        documents[i] = [key |-> collection, value |-> resolved.cls]
                  /\ resolved.cls.collection = collection
                  /\ resolved.data = dct
            /\ ("_id" \notin DOMAIN dct \/ (wellFormed /\ ~Contains(documents, collection))) =>
                  /\ resolved.raised = "TypeError"
                  /\ resolved.cls = NoClass
                  /\ resolved.data = EmptyDict

C4_Witness ==
    /\ resolved.raised = "none"
    /\ resolved.cls.name = "Order"
    /\ resolved.cls.meta = "MetaEdgeBase"
    /\ Len(documents) = MaxDeclarations
    /\ "foo" \in DOMAIN resolved.data

(***************************************************************************)
(* Claims about the cursor.                                                *)
(***************************************************************************)
\* The server of claim C1: every batch holds a record (and hasMore is true on
\* all batches but the last, as on every server of the model).
NonEmptyBatches ==
    \A i \in 1..Len(script) :
        /\ script[i] # <<>>
        /\ ServerBatch(i).hasMore <=> (i < Len(script))

AllRecords == Flatten(script)

\* C1: against a server that returns k >= 1 non-empty batches, hasMore true on
\* the first k-1 and false on the last, iter_result yields the records of all
\* batches exactly once, in batch order and in list order within a batch (what
\* has been yielded is always a prefix of the concatenated batches), and then
\* terminates having yielded all of them.
C1_YieldsAllBatchesInOrderThenTerminates ==
    /\ [](NonEmptyBatches => IsPrefix(yielded, AllRecords))
    /\ (NonEmptyBatches ~> (pc = "done" /\ yielded = AllRecords))

C1_Witness ==
    /\ NonEmptyBatches
    /\ Len(script) = MaxBatches
    /\ pc = "done"
    /\ yielded = AllRecords
    /\ Len(calls) = MaxBatches

\* C2: iter_result stops only when the current batch's hasMore flag is false;
\* after every batch whose hasMore flag is true, an empty one included, it
\* issues a continue call with that batch's cursor id: the i-th batch is
\* followed by a continue call carrying its id whenever its hasMore is true.
C2_StopsOnlyWhenHasMoreIsFalse ==
    /\ (pc = "done" => ~cursor.hasMore)
    /\ \A i \in 2..Len(calls) :
          calls[i].op = "pursue" /\ calls[i].id = i - 1 /\ ServerBatch(i - 1).hasMore

(***************************************************************************)
(* Claims about failing, repeated and abandoned iterations.                *)
(***************************************************************************)
\* The records of the batches the transport has served to this generator.
ServedRecords == Flatten(SubSeq(script, 1, served))

LastCall(cs) == cs[Len(cs)]

\* C11: a failing create call ends the iteration with the error and without
\* a record; a failing continue call ends it with the error once exactly the
\* records of the earlier batches have been yielded; no call follows the
\* failing one while the generator is the failed one (no retry).
C11_TransportErrorReachesConsumer ==
    /\ [](pc = "failed" => Len(calls) = failAt /\ yielded = ServedRecords)
    /\ [][(calls' # calls /\ Len(calls') = failAt) =>
            /\ pc' = "failed"
            /\ yielded' = yielded
            /\ yielded' = Flatten(SubSeq(script, 1, served))
            /\ LastCall(calls').op = "create" => yielded' = <<>>]_vars

C11_Witness ==
    /\ pc = "failed"
    /\ LastCall(calls).op = "pursue"
    /\ Len(yielded) >= 2

\* C12: the first pull of every generator issues one create call carrying
\* the Cursor's query and bind map, and only the first pull does; a continue
\* call carries the id of the batch this generator was served last, never
\* one of an earlier generator.
C12_EveryIterationCreatesItsOwnCursor ==
    /\ [](/\ Cardinality({i \in 1..Len(calls) : calls[i].op = "create"}) <= run
          /\ Len(calls) > 0 => calls[1].op = "create")
    /\ [][(pc = "created" /\ pc' \notin {"created", "closed"}) =>
            /\ Len(calls') = Len(calls) + 1
            /\ LastCall(calls').op = "create"
            /\ LastCall(calls').query = this.query
            /\ LastCall(calls').bindVars = (IF this.bind = None THEN EmptyDict ELSE this.bind)]_vars
    /\ [][(pc # "created" /\ calls' # calls) =>
            /\ LastCall(calls').op = "pursue"
            /\ served >= 1
            /\ LastCall(calls').id = (run - 1) * (MaxBatches + 1) + served]_vars

C12_Witness ==
    /\ run = 2
    /\ Cardinality({i \in 1..Len(calls) : calls[i].op = "create"}) = 2
    /\ LastCall(calls).op = "pursue"
    /\ this.bind # None
    /\ pc = "yield"

\* The optional fields the create-cursor request is to carry for a Cursor's
\* keyword options: batch under the name batchSize, ttl and count.
SentOptions(kwargs) ==
    LET sent == {k \in {"batch", "ttl", "count"} : k \in DOMAIN kwargs}
        name(k) == IF k = "batch" THEN "batchSize" ELSE k
    IN  {<<name(k), kwargs[k]>> : k \in sent}

\* C25: the create-cursor request always carries the Cursor's query and its
\* bind map (an empty map when the Cursor has none), and of the Cursor's
\* keyword options exactly the supplied ones among batch (as batchSize), ttl
\* and count; no other keyword option is sent.
C25_CreateBodyCarriesKnownOptionsOnly ==
    \A i \in 1..Len(calls) :
        calls[i].op = "create" =>
            /\ calls[i].query = this.query
            /\ calls[i].bindVars = (IF this.bind = None THEN EmptyDict ELSE this.bind)
            /\ {<<k, calls[i].options[k]>> : k \in DOMAIN calls[i].options}
                    = SentOptions(this.kwargs)

C25_Witness ==
    /\ Len(calls) = 1
    /\ calls[1].op = "create"
    /\ this.bind = None
    /\ DOMAIN this.kwargs = {"batch", "count", "batchSize", "fullCount"}
    /\ DOMAIN calls[1].options = {"batchSize", "count"}
    /\ calls[1].options["batchSize"] = "10"

\* C13: a continue call is issued only when every record of the current
\* batch has been yielded; a step makes at most one call, and only a pull of
\* the generator makes one; no call is a cursor delete.
C13_NoFetchAheadNoClose ==
    /\ [](\A i \in 1..Len(calls) : calls[i].op \in {"create", "pursue"})
    /\ [][calls' # calls =>
            /\ Len(calls') = Len(calls) + 1
            /\ SubSeq(calls', 1, Len(calls)) = calls
            /\ run' = run
            /\ pc \in {"created", "yield"}
            /\ pc' # "closed"
            /\ LastCall(calls').op = "pursue" =>
                  /\ pos = Len(cursor.result)
                  /\ yielded = ServedRecords]_vars

C13_Witness ==
    /\ pc = "closed"
    /\ Len(calls) >= 2
    /\ pos < Len(cursor.result)
    /\ LastCall(calls).op = "pursue"

====
